---- MODULE Spec2Model ----
(***************************************************************************)
(* A model of modal/_runtime/container_io_manager.py: the input-slot      *)
(* semaphore (InputSlots), the per-input IOContext, the input producer     *)
(* (_generate_inputs / run_inputs_outputs), the output path                *)
(* (push_outputs / handle_input_exception / exit_context), the heartbeat   *)
(* loop with its cancellation inbox, and memory_snapshot/memory_restore.   *)
(*                                                                         *)
(* Every action is one run of the event loop between two suspension points *)
(* (await) of the Python code: whatever the code does synchronously is one *)
(* step.                                                                   *)
(***************************************************************************)
EXTENDS Integers, Sequences, FiniteSets, TLC

\* ---------------------------------------------------------------- bounds
\* The most IOContexts the producer creates in one run.
MaxCtx == 2
\* The largest max_concurrent_inputs a container is configured with.
MaxConc == 2
\* The most outputs one _push_outputs call is given.
MaxOutputs == 41
\* The longest time since the last heartbeat success that is told apart, and
\* the duration of a slow heartbeat attempt, in HEARTBEAT_INTERVALs.
MaxSince == 52
LongAttempt == 7
\* The most inputs of a batch whose arguments are told apart, and the most
\* positional arguments of one input.
MaxBatch == 2
MaxArgs == 3
\* The tasks that call one InputSlots at the same time.
MaxCallers == 3
\* How far the length of an exception's repr is from MAX_OBJECT_SIZE_BYTES.
MaxExcess == 1100
\* The calls made on one IOContext.
MaxOps == 6
\* The most items of one FunctionGetInputs response (its batch_max_size).
MaxItems == 4
\* The most exit_context calls made on one manager.
MaxExits == 3
\* The most messages a generator emits.
MaxMessages == 4
\* The size of the queue between the generator and generator_output_task.
QueueSize == 3

\* ------------------------------------------------------ program constants
\* _push_outputs: output_batch_size, the most items of one FunctionPutOutputs.
output_batch_size == 20

VARIABLES
    input_slots,            \* InputSlots: active, value, waiter, closed
    fetching_inputs,        \* _ContainerIOManager._fetching_inputs
    stop_concurrency_loop,  \* _ContainerIOManager._stop_concurrency_loop
    calls_completed,        \* _ContainerIOManager.calls_completed
    current_inputs,         \* _ContainerIOManager.current_inputs: input id -> IOContext
    current_input_id,       \* _ContainerIOManager.current_input_id
    current_input_started_at, \* _ContainerIOManager.current_input_started_at
    task_id,                \* _ContainerIOManager.task_id
    singleton,              \* _ContainerIOManager._singleton: the manager object
    conf,                   \* the container's configuration, fixed by _init
    prod,                   \* the task running run_inputs_outputs/_generate_inputs
    ctxs,                   \* the IOContexts created so far, in creation order
    hb_pc,                  \* the heartbeat loop's position
    hb_late_cancel,         \* the last heartbeat response cancelled only accepted inputs
    heartbeat_lock,         \* holder of heartbeat_condition's lock
    waiting_for_memory_snapshot,
    snap,                   \* the task running memory_snapshot/memory_restore
    push,                   \* one _push_outputs call and the requests it issued
    gen,                    \* one generator_output_sender: queue, task, data_out
    hbl,                    \* one _run_heartbeat_loop task: its control flow
    bat,                    \* one batched IOContext from its call to its outputs
    ue,                     \* the lifecycle code run inside handle_user_exception
    sl,                     \* one InputSlots and the tasks that call it
    dc,                     \* one _dynamic_concurrency_loop task: its control flow
    rx,                     \* the repr of one exception in handle_input_exception
    ioc,                    \* one IOContext and the calls made on it, in order
    fi,                     \* one FunctionGetInputs response in _generate_inputs, item by item
    ex                      \* the manager's fields that exit_context changes, and its last call

pipeVars == <<input_slots, fetching_inputs, stop_concurrency_loop, calls_completed,
              current_inputs, current_input_id, current_input_started_at,
                   task_id, singleton, conf, prod, ctxs>>
hbVars == <<hb_pc, hb_late_cancel, heartbeat_lock, waiting_for_memory_snapshot>>
vars == <<input_slots, fetching_inputs, stop_concurrency_loop, calls_completed,
          current_inputs, current_input_id, current_input_started_at,
                   task_id, singleton, conf, prod, ctxs,
          hb_pc, hb_late_cancel, heartbeat_lock, waiting_for_memory_snapshot, snap,
          push, gen, hbl, bat, ue, sl, dc, rx, ioc, fi, ex>>
sideVars == <<push, gen, hbl, bat, ue, sl, dc, rx, ioc, fi, ex>>
\* What the steps of one side task leave alone.
pushOthers == <<gen, hbl, bat, ue, sl, dc, rx, ioc, fi, ex>>
genOthers == <<push, hbl, bat, ue, sl, dc, rx, ioc, fi, ex>>
hblOthers == <<push, gen, bat, ue, sl, dc, rx, ioc, fi, ex>>
batOthers == <<push, gen, hbl, ue, sl, dc, rx, ioc, fi, ex>>
ueOthers == <<push, gen, hbl, bat, sl, dc, rx, ioc, fi, ex>>
slOthers == <<push, gen, hbl, bat, ue, dc, rx, ioc, fi, ex>>
dcOthers == <<push, gen, hbl, bat, ue, sl, rx, ioc, fi, ex>>
rxOthers == <<push, gen, hbl, bat, ue, sl, dc, ioc, fi, ex>>
iocOthers == <<push, gen, hbl, bat, ue, sl, dc, rx, fi, ex>>
fiOthers == <<push, gen, hbl, bat, ue, sl, dc, rx, ioc, ex>>
exOthers == <<push, gen, hbl, bat, ue, sl, dc, rx, ioc, fi>>

None == "None"

\* current_input_id when it is None: no input id.
NoInputId == <<>>

\* time.time(), whatever the clock reads.
Now == "now"

Min(a, b) == IF a < b THEN a ELSE b
Max(a, b) == IF a > b THEN a ELSE b

\* ------------------------------------------------------------ InputSlots
\* InputSlots.__init__
NewInputSlots(v) ==
    [active |-> 0, value |-> v, waiter |-> None, resolved |-> FALSE, closed |-> FALSE]

AcquireUnguarded(s) ==
    [s |-> [s EXCEPT !.active = @ + 1], res |-> "granted"]

AcquireOverwrites(s) ==
    IF s.active < s.value
    THEN [s |-> [s EXCEPT !.active = @ + 1], res |-> "granted"]
    ELSE [s |-> [s EXCEPT !.waiter = "future", !.resolved = FALSE], res |-> "parked"]

\* InputSlots.acquire up to its suspension: granted, parked on a new future, or
\* the RuntimeError of a second waiter.
Acquire(s) ==
    IF s.active < s.value
    THEN [s |-> [s EXCEPT !.active = @ + 1], res |-> "granted"]
    ELSE IF s.waiter = None
         THEN [s |-> [s EXCEPT !.waiter = "future", !.resolved = FALSE], res |-> "parked"]
         ELSE [s |-> s, res |-> "error"]

\* _wake_waiter that resolves the future and leaves it in self.waiter
WakeWaiterKeepsFuture(s) ==
    IF s.active < s.value /\ s.waiter # None
    THEN [s EXCEPT !.resolved = TRUE, !.active = @ + 1]
    ELSE s

WakeWaiterUnguarded(s) ==
    IF s.waiter # None
    THEN [s EXCEPT !.waiter = None, !.resolved = TRUE, !.active = @ + 1]
    ELSE s

\* InputSlots._wake_waiter: the future gets its result, the slot is taken on the
\* waiter's behalf; `resolved` holds until the parked coroutine runs again.
WakeWaiter(s) ==
    IF s.active < s.value /\ s.waiter # None
    THEN [s EXCEPT !.waiter = None, !.resolved = TRUE, !.active = @ + 1]
    ELSE s

ReleaseTwice(s) == WakeWaiter([s EXCEPT !.active = @ - 2])

\* InputSlots.release
Release(s) == WakeWaiter([s EXCEPT !.active = @ - 1])

SetValueNoDownsize(s, v) ==
    IF s.closed \/ v < s.active THEN s ELSE WakeWaiter([s EXCEPT !.value = v])

\* InputSlots.set_value
SetValue(s, v) == IF s.closed THEN s ELSE WakeWaiter([s EXCEPT !.value = v])

\* The loop of InputSlots.close from its `got`-th acquire on, up to its next
\* suspension: `total` is range(self.value), fixed when close() was called.
RECURSIVE CloseLoop(_, _, _)
CloseLoop(s, got, total) ==
    IF got >= total
    THEN [s |-> s, got |-> got, res |-> "closed"]
    ELSE LET a == Acquire(s)
         IN  IF a.res = "granted"
             THEN CloseLoop(a.s, got + 1, total)
             ELSE [s |-> a.s, got |-> got, res |-> a.res]

CloseStaysOpen(s) == CloseLoop(s, 0, s.value)

\* InputSlots.close, from the call to its first suspension (or its return).
Close(s) == CloseLoop([s EXCEPT !.closed = TRUE], 0, s.value)

\* ------------------------------------------------- InputSlots on its own
\* One InputSlots called by Callers tasks. sl.s: the semaphore. sl.callers:
\* what each task is doing: idle, parked (inside acquire, awaiting the future),
\* granted (acquire returned at once), resumed (acquire returned after it was
\* parked), error (acquire raised RuntimeError).
NoSlots == [s |-> NewInputSlots(0), callers |-> <<>>]

Callers == 1..MaxCallers

\* A task calls acquire().
SlotsAcquire(c) ==
    /\ sl.callers # <<>>
    /\ sl.callers[c] \in {"idle", "error"}
    /\ LET a == Acquire(sl.s)
       IN  sl' = [sl EXCEPT !.s = a.s, !.callers[c] = a.res]
    /\ UNCHANGED <<hbVars, snap, pipeVars, slOthers>>

\* The future of the parked task has its result: acquire() returns.
SlotsResumed(c) ==
    /\ sl.callers # <<>>
    /\ sl.callers[c] = "parked"
    /\ sl.s.resolved
    /\ sl' = [sl EXCEPT !.s.resolved = FALSE, !.callers[c] = "resumed"]
    /\ UNCHANGED <<hbVars, snap, pipeVars, slOthers>>

\* A task that holds a slot calls release().
SlotsRelease(c) ==
    /\ sl.callers # <<>>
    /\ sl.callers[c] \in {"granted", "resumed"}
    /\ sl' = [sl EXCEPT !.s = Release(@), !.callers[c] = "idle"]
    /\ UNCHANGED <<hbVars, snap, pipeVars, slOthers>>

\* set_value(v) is called.
SlotsSetValue(v) ==
    /\ sl.callers # <<>>
    /\ sl' = [sl EXCEPT !.s = SetValue(@, v)]
    /\ UNCHANGED <<hbVars, snap, pipeVars, slOthers>>

\* -------------------------------------------------------------- IOContext
\* IOContext.__init__ for a batch of n inputs. st: hydrating (IOContext.create awaits
\* the blob downloads), running, pushing (push_outputs), term_pushing /
\* fail_pushing (handle_input_exception), done (exit_context ran), aborted
\* (KeyboardInterrupt / GeneratorExit re-raised). sent: outputs accepted by the
\* FunctionPutOutputs calls of the current _push_outputs. calls: invocations
\* of the cancel callback. outs: for each status, the outputs of that status
\* that FunctionPutOutputs calls have accepted for the context; a count of c
\* stands for one output for each of the first c input ids, in input order, as
\* _push_outputs sends its slices in that order. outs is a history of what the
\* server was sent, kept only when conf.record_outputs is set; no guard reads it.
Statuses == {"SUCCESS", "TERMINATED", "FAILURE"}

NewIOContext(n) ==
    [n |-> n, st |-> "hydrating", sent |-> 0,
     cb |-> FALSE, cancel_issued |-> FALSE, calls |-> 0,
     outs |-> [status \in Statuses |-> 0]]

\* IOContext.input_ids of the k-th context
InputIds(k) == {<<k, i>> : i \in 1..ctxs[k].n}

\* IOContext.set_cancel_callback
SetCallback(c) == [c EXCEPT !.cb = TRUE]

\* cancel() that marks the context even when no callback is attached
CancelMarksWithoutCallback(c) ==
    IF c.cancel_issued
    THEN c
    ELSE IF c.cb
         THEN [c EXCEPT !.cancel_issued = TRUE, !.calls = @ + 1]
         ELSE [c EXCEPT !.cancel_issued = TRUE]

CancelUnguarded(c) ==
    IF c.cb THEN [c EXCEPT !.cancel_issued = TRUE, !.calls = @ + 1] ELSE c

\* IOContext.cancel
Cancel(c) ==
    IF c.cancel_issued
    THEN c
    ELSE IF c.cb
         THEN [c EXCEPT !.cancel_issued = TRUE, !.calls = @ + 1]
         ELSE c

RECURSIVE CancelTimes(_, _)
CancelTimes(c, m) == IF m = 0 THEN c ELSE CancelTimes(Cancel(c), m - 1)

\* ------------------------------------------- calls made on one IOContext
\* ioc: an IOContext (c) and the calls made on it so far, in order (ops).
NoCtx == [c |-> NewIOContext(1), ops |-> <<>>]

\* The heartbeat loop calls cancel() on the IOContext.
CtxCancel ==
    /\ Len(ioc.ops) < MaxOps
    /\ ioc' = [c |-> Cancel(ioc.c), ops |-> Append(ioc.ops, "cancel")]
    /\ UNCHANGED <<hbVars, snap, pipeVars, iocOthers>>

\* The consumer calls set_cancel_callback() on the IOContext.
CtxSetCancelCallback ==
    /\ Len(ioc.ops) < MaxOps
    /\ ioc' = [c |-> SetCallback(ioc.c), ops |-> Append(ioc.ops, "set_cancel_callback")]
    /\ UNCHANGED <<hbVars, snap, pipeVars, iocOthers>>

\* ------------------------------- _generate_inputs: the items of a response
\* fi: one iteration of _generate_inputs from the arrival of the
\* FunctionGetInputs response on. rate_limit: response.rate_limit_sleep_duration
\* is non-zero. items: response.inputs, each item "input" (a regular item),
\* "final" (a regular item whose input has final_input set) or "kill_switch".
\* inputs: the positions in response.inputs of the items of the yielded list.
\* pc: response, sleeping (asyncio.sleep of the rate limit, then the next
\* iteration), yielded, returned (kill switch), next (nothing to do).
NoFetch == [pc |-> "idle", rate_limit |-> FALSE, items |-> <<>>, inputs |-> <<>>,
            final_input_received |-> FALSE]

\* `for item in response.inputs:` from position i on, with the list collected
\* so far: `if item.kill_switch: return`; `inputs.append(...)`;
\* `if item.input.final_input: final_input_received = True; break`.
RECURSIVE CollectInputs(_, _, _)
CollectInputs(items, i, inputs) ==
    IF i > Len(items)
    THEN [kill_switch |-> FALSE, inputs |-> inputs, final_input_received |-> FALSE]
    ELSE IF items[i] = "kill_switch"
         THEN [kill_switch |-> TRUE, inputs |-> inputs, final_input_received |-> FALSE]
         ELSE IF items[i] = "final"
              THEN [kill_switch |-> FALSE, inputs |-> Append(inputs, i),
                    final_input_received |-> TRUE]
              ELSE CollectInputs(items, i + 1, Append(inputs, i))

\* `if response.rate_limit_sleep_duration:` sleep; response.inputs is not read.
FetchRateLimited ==
    /\ fi.pc = "response"
    /\ fi.rate_limit
    /\ fi' = [fi EXCEPT !.pc = "sleeping"]
    /\ UNCHANGED <<hbVars, snap, pipeVars, fiOthers>>

\* `elif response.inputs:` the items are collected and the list is yielded,
\* or a kill switch item makes the producer return without yielding.
FetchItems ==
    /\ fi.pc = "response"
    /\ ~fi.rate_limit
    /\ fi.items # <<>>
    /\ LET r == CollectInputs(fi.items, 1, <<>>)
       IN  fi' = IF r.kill_switch
                 THEN [fi EXCEPT !.pc = "returned"]
                 ELSE [fi EXCEPT !.pc = "yielded", !.inputs = r.inputs,
                                 !.final_input_received = r.final_input_received]
    /\ UNCHANGED <<hbVars, snap, pipeVars, fiOthers>>

\* Neither a sleep duration nor items: the next iteration.
FetchEmpty ==
    /\ fi.pc = "response"
    /\ ~fi.rate_limit
    /\ fi.items = <<>>
    /\ fi' = [fi EXCEPT !.pc = "next"]
    /\ UNCHANGED <<hbVars, snap, pipeVars, fiOthers>>

\* ------------------------------------------------- exit_context on its own
\* ex: total_user_time, calls_completed, the keys of current_inputs and the
\* semaphore of a manager, the number of exit_context calls made (calls),
\* whether the last one raised KeyError (raised), and the four fields as they
\* were when the last call was made (before).
ExitFields(total_user_time, completed, cur, s) ==
    [total_user_time |-> total_user_time, calls_completed |-> completed,
     current_inputs |-> cur, input_slots |-> s]

NoExit ==
    [m |-> ExitFields(0, 0, {}, NewInputSlots(0)), calls |-> 0, raised |-> FALSE,
     before |-> ExitFields(0, 0, {}, NewInputSlots(0))]

\* `for input_id in input_ids: self.current_inputs.pop(input_id)`: dict.pop
\* without a default raises KeyError at the first id that is not a key.
RECURSIVE PopEach(_, _)
PopEach(cur, input_ids) ==
    IF input_ids = <<>>
    THEN [cur |-> cur, raised |-> FALSE]
    ELSE IF Head(input_ids) \notin cur
         THEN [cur |-> cur, raised |-> TRUE]
         ELSE PopEach(cur \ {Head(input_ids)}, Tail(input_ids))

\* exit_context(started_at, input_ids), `elapsed` being time.time() - started_at
ExitContext(m, elapsed, input_ids) ==
    LET timed == [m EXCEPT !.total_user_time = @ + elapsed]
        counted == [timed EXCEPT !.calls_completed = @ + 1]
        popped == PopEach(m.current_inputs, input_ids)
    IN  IF popped.raised
        THEN [m |-> [counted EXCEPT !.current_inputs = popped.cur], raised |-> TRUE]
        ELSE [m |-> [counted EXCEPT !.current_inputs = popped.cur,
                                    !.input_slots = Release(@)],
              raised |-> FALSE]

\* The input ids of the IOContexts the manager serves: a batch of two inputs
\* and a single input.
ServedContexts == {<<"in-1", "in-2">>, <<"in-3">>}

\* exit_context is called for one of the IOContexts.
ExitContextCalled(elapsed, input_ids) ==
    /\ ex.calls \in 0..(MaxExits - 1)
    /\ LET r == ExitContext(ex.m, elapsed, input_ids)
       IN  ex' = [m |-> r.m, calls |-> ex.calls + 1, raised |-> r.raised, before |-> ex.m]
    /\ UNCHANGED <<hbVars, snap, pipeVars, exOthers>>

\* memory_restore: `self.current_inputs = {}`
ExitAfterRestore ==
    /\ ex.m.current_inputs # {}
    /\ ex' = [ex EXCEPT !.m.current_inputs = {}, !.raised = FALSE, !.before = ex.m]
    /\ UNCHANGED <<hbVars, snap, pipeVars, exOthers>>

\* ---------------------------------------------------------------- _init
\* _ContainerIOManager._init: max_concurrency and target_concurrency from the
\* function definition's max_concurrent_inputs / target_concurrent_inputs.
InitConf(max_concurrent_inputs, target_concurrent_inputs, batch_max_size, max_inputs) ==
    LET max_concurrency == IF max_concurrent_inputs # 0 THEN max_concurrent_inputs ELSE 1
        target_concurrency == IF target_concurrent_inputs # 0
                              THEN target_concurrent_inputs ELSE max_concurrency
    IN  [max_concurrency |-> max_concurrency, target_concurrency |-> target_concurrency,
         batch_max_size |-> batch_max_size, max_inputs |-> max_inputs]

\* The batch sizes a FunctionGetInputs response may carry:
\* 0 < len(response.inputs) <= max(1, batch_max_size).
BatchSizes == {n \in {1, output_batch_size + 1} : n <= conf.batch_max_size \/ n = 1}

\* ------------------------------------------------------------- the producer
\* prod.pc: start, acq_wait (parked in acquire), rpc (FunctionGetInputs in
\* flight), sleep (rate-limit sleep), create (IOContext.create awaiting),
\* yielded (the consumer holds the IOContext), close_wait (parked in close),
\* done (run_inputs_outputs returned), failed (it raised), acquire_raised (it
\* raised the RuntimeError of acquire: a second waiter).

AlwaysRelease(s, yielded) == Release(s)

\* _generate_inputs: `finally: if not yielded: self._input_slots.release()`
GenerateInputsFinally(s, yielded) == IF ~yielded THEN Release(s) ELSE s

\* run_inputs_outputs after the producer has stopped: InputSlots.close().
EndOfInputs(s, p) ==
    LET c == Close(s)
    IN  [s |-> c.s,
         p |-> [p EXCEPT !.pc = CASE c.res = "closed" -> "done"
                                  [] c.res = "parked" -> "close_wait"
                                  [] OTHER -> "acquire_raised",
                         !.close_got = c.got, !.close_total = s.value]]

\* _generate_inputs from `while self._fetching_inputs` to the next suspension.
LoopHead(s, p, fetching) ==
    IF fetching
    THEN LET a == Acquire(s)
         IN  [s |-> a.s,
              p |-> CASE a.res = "granted" -> [p EXCEPT !.pc = "rpc", !.yielded = FALSE,
                                                        !.final_input_received = FALSE]
                      [] a.res = "parked" -> [p EXCEPT !.pc = "acq_wait"]
                      [] OTHER -> [p EXCEPT !.pc = "acquire_raised"]]
    ELSE EndOfInputs(s, p)

Proceed(r) == input_slots' = r.s /\ prod' = r.p

\* run_inputs_outputs is first resumed: the producer enters its loop.
StartProducer ==
    /\ prod.pc = "start"
    /\ Proceed(LoopHead(input_slots, prod, fetching_inputs))
    /\ UNCHANGED <<fetching_inputs, stop_concurrency_loop, calls_completed,
                   current_inputs, current_input_id, current_input_started_at,
                   task_id, singleton, conf, ctxs>>
    /\ UNCHANGED <<hbVars, snap, sideVars>>

\* The future of a parked acquire() was resolved: the request is built and the
\* FunctionGetInputs call issued.
AcquireResumed ==
    /\ prod.pc = "acq_wait"
    /\ input_slots.resolved
    /\ input_slots' = [input_slots EXCEPT !.resolved = FALSE]
    /\ prod' = [prod EXCEPT !.pc = "rpc", !.yielded = FALSE,
                            !.final_input_received = FALSE]
    /\ UNCHANGED <<fetching_inputs, stop_concurrency_loop, calls_completed,
                   current_inputs, current_input_id, current_input_started_at,
                   task_id, singleton, conf, ctxs>>
    /\ UNCHANGED <<hbVars, snap, sideVars>>

\* response.rate_limit_sleep_duration is set: asyncio.sleep.
GetInputsRateLimited ==
    /\ prod.pc = "rpc"
    /\ prod' = [prod EXCEPT !.pc = "sleep"]
    /\ UNCHANGED <<input_slots, fetching_inputs, stop_concurrency_loop, calls_completed,
                   current_inputs, current_input_id, current_input_started_at,
                   task_id, singleton, conf, ctxs>>
    /\ UNCHANGED <<hbVars, snap, sideVars>>

\* The sleep is over: finally, then the next iteration.
RateLimitSleepDone ==
    /\ prod.pc = "sleep"
    /\ Proceed(LoopHead(GenerateInputsFinally(input_slots, prod.yielded), prod,
                        fetching_inputs))
    /\ UNCHANGED <<fetching_inputs, stop_concurrency_loop, calls_completed,
                   current_inputs, current_input_id, current_input_started_at,
                   task_id, singleton, conf, ctxs>>
    /\ UNCHANGED <<hbVars, snap, sideVars>>

\* A response with neither a sleep duration nor inputs.
GetInputsEmpty ==
    /\ prod.pc = "rpc"
    /\ Proceed(LoopHead(GenerateInputsFinally(input_slots, prod.yielded), prod,
                        fetching_inputs))
    /\ UNCHANGED <<fetching_inputs, stop_concurrency_loop, calls_completed,
                   current_inputs, current_input_id, current_input_started_at,
                   task_id, singleton, conf, ctxs>>
    /\ UNCHANGED <<hbVars, snap, sideVars>>

KillSwitchSkipped(s, p, fetching) ==
    LoopHead(GenerateInputsFinally(s, p.yielded), p, fetching)

\* `if item.kill_switch: return`, then the finally clause, then the end of
\* run_inputs_outputs' `async for`.
KillSwitch(s, p, fetching) == EndOfInputs(GenerateInputsFinally(s, p.yielded), p)

\* A response with a kill-switch item: `return` inside the for loop, finally,
\* and run_inputs_outputs goes on to close().
GetInputsKillSwitch ==
    /\ prod.pc = "rpc"
    /\ Proceed(KillSwitch(input_slots, prod, fetching_inputs))
    /\ UNCHANGED <<fetching_inputs, stop_concurrency_loop, calls_completed,
                   current_inputs, current_input_id, current_input_started_at,
                   task_id, singleton, conf, ctxs>>
    /\ UNCHANGED <<hbVars, snap, sideVars>>

\* retry_transient_errors raises: finally, and the exception leaves
\* run_inputs_outputs.
GetInputsError ==
    /\ prod.pc = "rpc"
    /\ input_slots' = GenerateInputsFinally(input_slots, prod.yielded)
    /\ prod' = [prod EXCEPT !.pc = "failed"]
    /\ UNCHANGED <<fetching_inputs, stop_concurrency_loop, calls_completed,
                   current_inputs, current_input_id, current_input_started_at,
                   task_id, singleton, conf, ctxs>>
    /\ UNCHANGED <<hbVars, snap, sideVars>>

\* A response with n regular items (the last flagged final_input or not):
\* `yield inputs`, and run_inputs_outputs awaits IOContext.create.
GetInputsItems(n, final) ==
    /\ prod.pc = "rpc"
    /\ Len(ctxs) < MaxCtx
    /\ n \in BatchSizes
    /\ ctxs' = Append(ctxs, NewIOContext(n))
    /\ prod' = [prod EXCEPT !.pc = "create", !.final_input_received = final]
    /\ UNCHANGED <<input_slots, fetching_inputs, stop_concurrency_loop, calls_completed,
                   current_inputs, current_input_id, current_input_started_at,
                   task_id, singleton, conf>>
    /\ UNCHANGED <<hbVars, snap, sideVars>>

RegisterFirstOnly(cur, k) == [id \in DOMAIN cur \cup {<<k, 1>>} |-> IF id[1] = k THEN k ELSE cur[id]]

\* run_inputs_outputs: `for input_id in io_context.input_ids:
\*                          self.current_inputs[input_id] = io_context`
Register(cur, k) ==
    [id \in DOMAIN cur \cup InputIds(k) |-> IF id \in InputIds(k) THEN k ELSE cur[id]]

\* IOContext.create returned: the context is registered and yielded.
IOContextCreated ==
    /\ prod.pc = "create"
    /\ LET k == Len(ctxs)
       IN  /\ ctxs' = [ctxs EXCEPT ![k].st = "running"]
           /\ current_inputs' = Register(current_inputs, k)
           /\ current_input_id' = <<k, 1>>
           /\ current_input_started_at' = Now
    /\ prod' = [prod EXCEPT !.pc = "yielded"]
    /\ UNCHANGED <<input_slots, fetching_inputs, stop_concurrency_loop, calls_completed,
                   task_id, singleton, conf>>
    /\ UNCHANGED <<hbVars, snap, sideVars>>

AfterYieldIgnoresFinal(s0, p0, fetching) ==
    LET p == [p0 EXCEPT !.yielded = TRUE]
        s == GenerateInputsFinally(s0, p.yielded)
    IN  IF conf.max_inputs = 1
        THEN EndOfInputs(s, p)
        ELSE LoopHead(s, p, fetching)

\* _generate_inputs after `yield inputs`: `yielded = True`, `return` after a
\* final input or with max_inputs == 1, the finally clause, and then close()
\* or the next iteration.
AfterYield(s0, p0, fetching) ==
    LET p == [p0 EXCEPT !.yielded = TRUE]
        s == GenerateInputsFinally(s0, p.yielded)
    IN  IF p.final_input_received \/ conf.max_inputs = 1
        THEN EndOfInputs(s, p)
        ELSE LoopHead(s, p, fetching)

\* The consumer asks for the next IOContext: run_inputs_outputs resets
\* current_input_id, _generate_inputs sets yielded and returns (final input,
\* max_inputs == 1) or loops.
ConsumerResume ==
    /\ prod.pc = "yielded"
    /\ current_input_id' = NoInputId
    /\ current_input_started_at' = None
    /\ Proceed(AfterYield(input_slots, prod, fetching_inputs))
    /\ UNCHANGED <<fetching_inputs, stop_concurrency_loop, calls_completed,
                   current_inputs, task_id, singleton, conf, ctxs>>
    /\ UNCHANGED <<hbVars, snap, sideVars>>

\* The future of the acquire() close() was parked in was resolved: close()
\* goes on acquiring.
CloseResumed ==
    /\ prod.pc = "close_wait"
    /\ input_slots.resolved
    /\ LET c == CloseLoop([input_slots EXCEPT !.resolved = FALSE],
                          prod.close_got + 1, prod.close_total)
       IN  /\ input_slots' = c.s
           /\ prod' = [prod EXCEPT !.pc = CASE c.res = "closed" -> "done"
                                           [] c.res = "parked" -> "close_wait"
                                           [] OTHER -> "acquire_raised",
                                  !.close_got = c.got]
    /\ UNCHANGED <<fetching_inputs, stop_concurrency_loop, calls_completed,
                   current_inputs, current_input_id, current_input_started_at,
                   task_id, singleton, conf, ctxs>>
    /\ UNCHANGED <<hbVars, snap, sideVars>>

\* ------------------------------------------------------------ the consumer
\* The states in which an IOContext holds a slot the consumer is to release.
Live == {"running", "pushing", "term_pushing", "fail_pushing", "aborted"}
Pushing == {"pushing", "term_pushing", "fail_pushing"}

\* The consumer attaches the cancel callback of the execution it started.
SetCancelCallback(k) ==
    /\ k \in 1..Len(ctxs)
    /\ ctxs[k].st = "running"
    /\ ~ctxs[k].cb
    /\ ctxs' = [ctxs EXCEPT ![k] = SetCallback(@)]
    /\ UNCHANGED <<input_slots, fetching_inputs, stop_concurrency_loop, calls_completed,
                   current_inputs, current_input_id, current_input_started_at,
                   task_id, singleton, conf, prod>>
    /\ UNCHANGED <<hbVars, snap, sideVars>>

NextSentOverlapping(sent, n) == Min(sent + output_batch_size + 1, n)

\* _push_outputs: the outputs accepted once one more FunctionPutOutputs call has
\* returned (outputs[i : i + output_batch_size]).
NextSent(sent, n) == Min(sent + output_batch_size, n)

PushCompleteAfterFirst(sent, n) == TRUE

\* _push_outputs: `for i in range(0, len(outputs), output_batch_size)` is over.
PushComplete(sent, n) == sent >= n

\* exit_context: `for input_id in input_ids: self.current_inputs.pop(input_id)`
Pop(cur, k) == [id \in DOMAIN cur \ InputIds(k) |-> cur[id]]

CompletedPerInput(completed, k) == completed + ctxs[k].n

\* exit_context: `self.calls_completed += 1`
Completed(completed, k) == completed + 1

\* push_outputs with data that validate_output_data accepts: the results are
\* built and the first FunctionPutOutputs call is issued.
PushOutputs(k) ==
    /\ k \in 1..Len(ctxs)
    /\ ctxs[k].st = "running"
    /\ ctxs' = [ctxs EXCEPT ![k].st = "pushing", ![k].sent = 0]
    /\ UNCHANGED <<input_slots, fetching_inputs, stop_concurrency_loop, calls_completed,
                   current_inputs, current_input_id, current_input_started_at,
                   task_id, singleton, conf, prod>>
    /\ UNCHANGED <<hbVars, snap, sideVars>>

\* push_outputs: GenericResult(status=GENERIC_STATUS_SUCCESS, ...)
SuccessStatus == "SUCCESS"

CancelledAsFailure == "FAILURE"

\* handle_input_exception, except (InputCancellation, asyncio.CancelledError):
\* GenericResult(status=GENERIC_STATUS_TERMINATED)
CancelledStatus == "TERMINATED"

FailedAsTerminated == "TERMINATED"

\* handle_input_exception, except BaseException:
\* GenericResult(status=GENERIC_STATUS_FAILURE, ...)
FailedStatus == "FAILURE"

\* The status of the results the caller of _push_outputs built.
ResultStatus(st) ==
    CASE st = "pushing" -> SuccessStatus
      [] st = "term_pushing" -> CancelledStatus
      [] OTHER -> FailedStatus

\* The items of a FunctionPutOutputs call that returned are accepted: `sent`
\* outputs of the current _push_outputs have been by now.
AcceptOutputs(c, sent) ==
    IF conf.record_outputs
    THEN [c EXCEPT !.sent = sent, !.outs[ResultStatus(c.st)] = @ + (sent - c.sent)]
    ELSE [c EXCEPT !.sent = sent]

\* A FunctionPutOutputs call of _push_outputs returns: the next one is issued,
\* or _push_outputs returns and its caller (push_outputs or
\* handle_input_exception) runs exit_context.
PutOutputsReturns(k) ==
    /\ k \in 1..Len(ctxs)
    /\ ctxs[k].st \in Pushing
    /\ LET sent == NextSent(ctxs[k].sent, ctxs[k].n)
       IN  IF PushComplete(sent, ctxs[k].n)
           THEN /\ ctxs' = [ctxs EXCEPT ![k] = [AcceptOutputs(@, sent) EXCEPT !.st = "done"]]
                /\ calls_completed' = Completed(calls_completed, k)
                /\ current_inputs' = Pop(current_inputs, k)
                /\ input_slots' = Release(input_slots)
           ELSE /\ ctxs' = [ctxs EXCEPT ![k] = AcceptOutputs(@, sent)]
                /\ UNCHANGED <<calls_completed, current_inputs, input_slots>>
    /\ UNCHANGED <<fetching_inputs, stop_concurrency_loop, current_input_id, current_input_started_at,
                   task_id, singleton, conf, prod>>
    /\ UNCHANGED <<hbVars, snap, sideVars>>

\* Where InputCancellation or CancelledError can arise inside the body that
\* handle_input_exception wraps: in the user code, or, once the cancel callback
\* has cancelled the execution's task, at the await of push_outputs as well.
CancellationRaised(c) ==
    \/ c.st = "running"
    \/ c.st = "pushing" /\ c.cancel_issued

\* InputCancellation or CancelledError reaches handle_input_exception: raised
\* by the user code, or delivered by the cancel callback while the execution
\* awaits in push_outputs. The TERMINATED results are built and the first
\* FunctionPutOutputs call is issued.
InputCancelled(k) ==
    /\ k \in 1..Len(ctxs)
    /\ CancellationRaised(ctxs[k])
    /\ ctxs' = [ctxs EXCEPT ![k].st = "term_pushing", ![k].sent = 0]
    /\ UNCHANGED <<input_slots, fetching_inputs, stop_concurrency_loop, calls_completed,
                   current_inputs, current_input_id, current_input_started_at,
                   task_id, singleton, conf, prod>>
    /\ UNCHANGED <<hbVars, snap, sideVars>>

\* Any other exception reaches handle_input_exception (from the user code or
\* from validate_output_data): the FAILURE results are built and the first
\* FunctionPutOutputs call is issued.
InputFails(k) ==
    /\ k \in 1..Len(ctxs)
    /\ ctxs[k].st = "running"
    /\ ctxs' = [ctxs EXCEPT ![k].st = "fail_pushing", ![k].sent = 0]
    /\ UNCHANGED <<input_slots, fetching_inputs, stop_concurrency_loop, calls_completed,
                   current_inputs, current_input_id, current_input_started_at,
                   task_id, singleton, conf, prod>>
    /\ UNCHANGED <<hbVars, snap, sideVars>>

\* handle_input_exception with KeyboardInterrupt and GeneratorExit left to the
\* handler's last lines: exit_context runs.
InputInterruptedExits(k) ==
    /\ k \in 1..Len(ctxs)
    /\ ctxs[k].st = "running"
    /\ ctxs' = [ctxs EXCEPT ![k].st = "aborted"]
    /\ calls_completed' = Completed(calls_completed, k)
    /\ current_inputs' = Pop(current_inputs, k)
    /\ input_slots' = Release(input_slots)
    /\ UNCHANGED <<fetching_inputs, stop_concurrency_loop,
                   current_input_id, current_input_started_at,
                   task_id, singleton, conf, prod>>
    /\ UNCHANGED <<hbVars, snap, sideVars>>

\* KeyboardInterrupt or GeneratorExit reaches handle_input_exception: re-raised.
InputInterrupted(k) ==
    /\ k \in 1..Len(ctxs)
    /\ ctxs[k].st = "running"
    /\ ctxs' = [ctxs EXCEPT ![k].st = "aborted"]
    /\ UNCHANGED <<input_slots, fetching_inputs, stop_concurrency_loop, calls_completed,
                   current_inputs, current_input_id, current_input_started_at,
                   task_id, singleton, conf, prod>>
    /\ UNCHANGED <<hbVars, snap, sideVars>>

\* ----------------------------------------------------------- control calls
\* stop_fetching_inputs
StopFetchingInputs ==
    /\ fetching_inputs
    /\ fetching_inputs' = FALSE
    /\ UNCHANGED <<input_slots, stop_concurrency_loop, calls_completed,
                   current_inputs, current_input_id, current_input_started_at,
                   task_id, singleton, conf, prod, ctxs>>
    /\ UNCHANGED <<hbVars, snap, sideVars>>

\* set_input_concurrency(concurrency)
SetInputConcurrency(concurrency) ==
    /\ stop_concurrency_loop' = TRUE
    /\ input_slots' = SetValue(input_slots, Min(concurrency, conf.max_concurrency))
    /\ UNCHANGED <<fetching_inputs, calls_completed,
                   current_inputs, current_input_id, current_input_started_at,
                   task_id, singleton, conf, prod, ctxs>>
    /\ UNCHANGED <<hbVars, snap, sideVars>>

\* _dynamic_concurrency_loop: a FunctionGetDynamicConcurrency response is
\* applied. The loop runs inside run_inputs_outputs, and only when
\* max_concurrency > target_concurrency.
DynamicConcurrency(concurrency) ==
    /\ conf.max_concurrency > conf.target_concurrency
    /\ prod.pc \notin {"start", "done", "failed", "acquire_raised"}
    /\ ~stop_concurrency_loop
    /\ concurrency # input_slots.value
    /\ input_slots' = SetValue(input_slots, concurrency)
    /\ UNCHANGED <<fetching_inputs, stop_concurrency_loop, calls_completed,
                   current_inputs, current_input_id, current_input_started_at,
                   task_id, singleton, conf, prod, ctxs>>
    /\ UNCHANGED <<hbVars, snap, sideVars>>

\* ---------------------------------------------- _dynamic_concurrency_loop
\* The control flow of one _dynamic_concurrency_loop task. dc.pc: off, check
\* (at `while not self._stop_concurrency_loop`), rpc (the
\* FunctionGetDynamicConcurrency request is in flight), sleep, done (the while
\* ended), cancelled (dynamic_concurrency_manager's `t.cancel()`).
\* dc.overridden: a response asked for another capacity after
\* set_input_concurrency had been called.
NoConc == [pc |-> "off", overridden |-> FALSE]

ApplyConcurrencyUnchecked(s, stop, concurrency) ==
    IF concurrency # s.value THEN SetValue(s, concurrency) ELSE s

\* `if resp.concurrency != self._input_slots.value and not
\* self._stop_concurrency_loop: self._input_slots.set_value(resp.concurrency)`
ApplyConcurrency(s, stop, concurrency) ==
    IF concurrency # s.value /\ ~stop THEN SetValue(s, concurrency) ELSE s

\* `while not self._stop_concurrency_loop:` and the request sent.
ConcLoopCheck ==
    /\ dc.pc = "check"
    /\ dc' = [dc EXCEPT !.pc = IF stop_concurrency_loop THEN "done" ELSE "rpc"]
    /\ UNCHANGED <<hbVars, snap, pipeVars, dcOthers>>

\* The response arrives: the capacity is set unless it is the same or the
\* loop was told to stop; then the sleep.
ConcResponse(concurrency) ==
    /\ dc.pc = "rpc"
    /\ input_slots' = ApplyConcurrency(input_slots, stop_concurrency_loop, concurrency)
    /\ dc' = [dc EXCEPT !.pc = "sleep",
                        !.overridden = @ \/ (stop_concurrency_loop
                                              /\ concurrency # input_slots.value)]
    /\ UNCHANGED <<fetching_inputs, stop_concurrency_loop, calls_completed,
                   current_inputs, current_input_id, current_input_started_at,
                   task_id, singleton, conf, prod, ctxs>>
    /\ UNCHANGED <<hbVars, snap, dcOthers>>

\* The request fails: `except Exception` logs, then the sleep.
ConcRaises ==
    /\ dc.pc = "rpc"
    /\ dc' = [dc EXCEPT !.pc = "sleep"]
    /\ UNCHANGED <<hbVars, snap, pipeVars, dcOthers>>

\* asyncio.sleep(DYNAMIC_CONCURRENCY_INTERVAL_SECS) returns.
ConcSleepDone ==
    /\ dc.pc = "sleep"
    /\ dc' = [dc EXCEPT !.pc = "check"]
    /\ UNCHANGED <<hbVars, snap, pipeVars, dcOthers>>

\* dynamic_concurrency_manager's finally cancels the task at one of its awaits.
ConcCancelled ==
    /\ dc.pc \in {"rpc", "sleep"}
    /\ dc' = [dc EXCEPT !.pc = "cancelled"]
    /\ UNCHANGED <<hbVars, snap, pipeVars, dcOthers>>

\* ------------------------------------------------- heartbeat_condition's lock
\* asyncio.Lock: the holder and the tasks queued for it, first come first
\* served; a release hands the lock to the first queued task.
FreeLock == [owner |-> "free", queue |-> <<>>]

\* Lock.acquire up to its suspension
LockAcquire(l, task) ==
    IF l.owner = "free" /\ l.queue = <<>>
    THEN [l EXCEPT !.owner = task]
    ELSE [l EXCEPT !.queue = Append(@, task)]

\* Lock.release
LockRelease(l) ==
    IF l.queue = <<>>
    THEN [l EXCEPT !.owner = "free"]
    ELSE [owner |-> Head(l.queue), queue |-> Tail(l.queue)]

NotifyLost(pc) == pc

\* Condition.notify_all: the heartbeat loop is the only task that waits on
\* heartbeat_condition.
NotifyAll(pc) == IF pc = "cond_wait" THEN "notified" ELSE pc

\* ---------------------------------------------------------- heartbeat loop
\* hb_pc: off (heartbeats() not entered), ready (about to call
\* _heartbeat_handle_cancellations), lock_wait (queued for the lock),
\* cond_wait (in heartbeat_condition.wait()), notified (woken, about to take
\* the lock again), rpc (ContainerHeartbeat in flight, lock held), stopped.

\* The ids of an input whose output a FunctionPutOutputs call has accepted.
Accepted(id) ==
    /\ id[1] \in 1..Len(ctxs)
    /\ \/ ctxs[id[1]].st = "done"
       \/ ctxs[id[1]].st \in Pushing /\ id[2] <= ctxs[id[1]].sent

\* _heartbeat_handle_cancellations: `for input_id in input_ids_to_cancel:
\*     if input_id in self.current_inputs: self.current_inputs[input_id].cancel()`
CancelInputs(cs, cur, ids) ==
    [k \in DOMAIN cs |->
        CancelTimes(cs[k], Cardinality({id \in ids \cap DOMAIN cur : cur[id] = k}))]

\* The cancel events a heartbeat response may carry.
CancelEvents ==
    {{}} \cup {{<<k, i>>} : k \in 1..Len(ctxs), i \in {1, output_batch_size + 1}}
         \cup {{<<k, 1>>, <<k, output_batch_size + 1>>} : k \in 1..Len(ctxs)}

NeverWait(flag) == FALSE

\* _heartbeat_handle_cancellations: `while self._waiting_for_memory_snapshot`
MustWait(flag) == flag

\* _heartbeat_handle_cancellations once it holds the lock: wait on the
\* condition (which releases the lock), or send the ContainerHeartbeat request.
HeartbeatLocked(l) ==
    IF MustWait(waiting_for_memory_snapshot)
    THEN /\ hb_pc' = "cond_wait"
         /\ heartbeat_lock' = LockRelease(l)
    ELSE /\ hb_pc' = "rpc"
         /\ heartbeat_lock' = l

\* heartbeats(wait_for_mem_snap): the loop's task is created and the flag set.
StartHeartbeats(wait_for_mem_snap) ==
    /\ hb_pc = "off"
    /\ hb_pc' = "ready"
    /\ waiting_for_memory_snapshot' = wait_for_mem_snap
    /\ UNCHANGED <<hb_late_cancel, heartbeat_lock, snap, pipeVars, sideVars>>

\* A tick starts (at task start or when the sleep is over), or the loop comes
\* back from heartbeat_condition.wait(): it takes the lock or queues for it.
HeartbeatBegin ==
    /\ hb_pc \in {"ready", "notified"}
    /\ LET l == LockAcquire(heartbeat_lock, "hb")
       IN  IF l.owner = "hb"
           THEN HeartbeatLocked(l)
           ELSE hb_pc' = "lock_wait" /\ heartbeat_lock' = l
    /\ hb_late_cancel' = FALSE
    /\ UNCHANGED <<waiting_for_memory_snapshot, snap, pipeVars, sideVars>>

\* The lock was handed to the queued loop.
HeartbeatLockGranted ==
    /\ hb_pc = "lock_wait"
    /\ heartbeat_lock.owner = "hb"
    /\ HeartbeatLocked(heartbeat_lock)
    /\ UNCHANGED <<hb_late_cancel, waiting_for_memory_snapshot, snap, pipeVars, sideVars>>

\* The response arrives: the lock is released and every input id of the
\* cancel event that is a key of current_inputs has its IOContext cancelled.
HeartbeatResponse(ids) ==
    /\ hb_pc = "rpc"
    /\ ids \in CancelEvents
    /\ heartbeat_lock' = LockRelease(heartbeat_lock)
    /\ ctxs' = CancelInputs(ctxs, current_inputs, ids)
    /\ hb_late_cancel' = (ids # {} /\ \A id \in ids : Accepted(id))
    /\ hb_pc' = "ready"
    /\ UNCHANGED <<waiting_for_memory_snapshot, snap, sideVars>>
    /\ UNCHANGED <<input_slots, fetching_inputs, stop_concurrency_loop, calls_completed,
                   current_inputs, current_input_id, current_input_started_at,
                   task_id, singleton, conf, prod>>

\* The attempt raises (a deadline, a local exception): logged, next tick.
HeartbeatFails ==
    /\ hb_pc = "rpc"
    /\ heartbeat_lock' = LockRelease(heartbeat_lock)
    /\ hb_pc' = "ready"
    /\ UNCHANGED <<hb_late_cancel, waiting_for_memory_snapshot, snap, pipeVars, sideVars>>

\* The loop's task is cancelled (stop_heartbeat, or heartbeats() exits), or
\* the attempt raises ClientClosed.
StopHeartbeat ==
    /\ hb_pc \notin {"off", "stopped"}
    /\ hb_pc' = "stopped"
    /\ heartbeat_lock' =
         IF heartbeat_lock.owner = "hb"
         THEN LockRelease(heartbeat_lock)
         ELSE [heartbeat_lock EXCEPT !.queue = SelectSeq(@, LAMBDA x : x # "hb")]
    /\ UNCHANGED <<hb_late_cancel, waiting_for_memory_snapshot, snap, pipeVars, sideVars>>

\* ----------------------------------------- memory_snapshot / memory_restore
\* snap.pc: idle, lock_wait, checkpoint (ContainerCheckpoint in flight),
\* closing (client._close), restoring (the busy-wait for the restore-state
\* file), new_client (_Client.from_env), done, failed (it raised).

\* memory_snapshot once it holds the lock: the flag is set, the condition
\* notified and the ContainerCheckpoint request sent.
SnapshotLocked(l) ==
    /\ waiting_for_memory_snapshot' = TRUE
    /\ hb_pc' = NotifyAll(hb_pc)
    /\ heartbeat_lock' = l
    /\ snap' = [snap EXCEPT !.pc = "checkpoint"]

\* memory_snapshot is called.
MemorySnapshot ==
    /\ snap.pc = "idle"
    /\ IF ~snap.checkpoint_id
       THEN /\ snap' = [snap EXCEPT !.pc = "failed"]
            /\ UNCHANGED <<hb_pc, heartbeat_lock, waiting_for_memory_snapshot>>
       ELSE LET l == LockAcquire(heartbeat_lock, "snap")
            IN  IF l.owner = "snap"
                THEN SnapshotLocked(l)
                ELSE /\ snap' = [snap EXCEPT !.pc = "lock_wait"]
                     /\ heartbeat_lock' = l
                     /\ UNCHANGED <<hb_pc, waiting_for_memory_snapshot>>
    /\ UNCHANGED <<hb_late_cancel, pipeVars, sideVars>>

\* The lock was handed to the queued memory_snapshot.
SnapshotLockGranted ==
    /\ snap.pc = "lock_wait"
    /\ heartbeat_lock.owner = "snap"
    /\ SnapshotLocked(heartbeat_lock)
    /\ UNCHANGED <<hb_late_cancel, pipeVars, sideVars>>

\* ContainerCheckpoint returned, then client._close, then the restore-state
\* file is waited for.
SnapshotAdvance ==
    /\ snap.pc \in {"checkpoint", "closing"}
    /\ snap' = [snap EXCEPT !.pc = IF @ = "checkpoint" THEN "closing" ELSE "restoring"]
    /\ UNCHANGED <<hbVars, pipeVars, sideVars>>

\* The task ids: the one of container_args and another one.
OldTask == "ta-1"
TaskIds == {OldTask, "ta-2"}

\* The restore-state file the worker wrote, as far as memory_restore reads it
\* into the manager: its task_id, which may be missing (Absent) or empty.
Absent == "absent"
RestoreStates == [task_id : TaskIds \cup {"", Absent}]

KeepTaskId(old, restored_state) == old

\* `if value := restored_state.get(key): setattr(self, key, restored_state[key])`
\* for key = "task_id": a missing or empty value leaves the field alone.
RestoredTaskId(old, restored_state) ==
    IF restored_state.task_id \in {Absent, ""} THEN old ELSE restored_state.task_id

\* memory_restore: the restore-state file exists and is read; task_id is
\* updated from it, the input state is reset and the new client awaited.
RestoreFileRead(restored_state) ==
    /\ snap.pc = "restoring"
    /\ task_id' = RestoredTaskId(task_id, restored_state)
    /\ current_input_id' = NoInputId
    /\ current_inputs' = <<>>
    /\ current_input_started_at' = None
    /\ snap' = [snap EXCEPT !.pc = "new_client", !.restored_state = restored_state]
    /\ UNCHANGED <<hbVars, input_slots, fetching_inputs, stop_concurrency_loop,
                   calls_completed, singleton, conf, prod, ctxs, sideVars>>

\* memory_restore returned: the flag is reset, the condition notified and the
\* lock released.
SnapshotDone ==
    /\ snap.pc = "new_client"
    /\ waiting_for_memory_snapshot' = FALSE
    /\ hb_pc' = NotifyAll(hb_pc)
    /\ heartbeat_lock' = LockRelease(heartbeat_lock)
    /\ snap' = [snap EXCEPT !.pc = "done"]
    /\ UNCHANGED <<hb_late_cancel, pipeVars, sideVars>>

\* ContainerCheckpoint, client._close, memory_restore or _Client.from_env
\* raises: the `async with` releases the lock and memory_snapshot raises.
SnapshotFails ==
    /\ snap.pc \in {"checkpoint", "closing", "restoring", "new_client"}
    /\ heartbeat_lock' = LockRelease(heartbeat_lock)
    /\ snap' = [snap EXCEPT !.pc = "failed"]
    /\ UNCHANGED <<hb_pc, hb_late_cancel, waiting_for_memory_snapshot, pipeVars, sideVars>>

\* ----------------------------------------------- generator_output_sender
\* One generator_output_sender context and its generator_output_task.
\* gen.ctx, the code that entered the context: idle, body (inside the `with`,
\* emitting messages), stopping (blocked putting the stop sentinel on a full
\* queue), joining (`await task`), exited, raised (the task's exception
\* re-raised). gen.pc, the task: idle, get (in `await message_rx.get()`),
\* sleep (the 1 ms sleep, holding gen.message), put (put_data_out in flight
\* with gen.batch), done, failed. gen.queue: message_rx; a message is a record
\* [id, size], id its rank among the messages put, size its serialized length.
\* gen.data_out: the chunks written, as <<index, message id>>, in wire order.
\* GENERATOR_STOP_SENTINEL = Sentinel(): an item no message is identical to.
STOP == [id |-> 0, size |-> 0]

NoGen ==
    [ctx |-> "idle", pc |-> "idle", queue |-> <<>>, emitted |-> 0, index |-> 1,
     received_sentinel |-> FALSE, message |-> None, batch |-> <<>>,
     data_out |-> <<>>, calls |-> 0]

\* The serialized lengths the messages of the model have: 1 KiB and 8 MiB.
MessageSizes == {1024, 8 * 1024 * 1024}

\* generator_output_task: `total_size < 16 * 1024 * 1024`
max_total_size == 16777216

\* generator_output_task: 512 bytes for estimated framing overhead
framing_overhead == 512

\* The inner loop of generator_output_task: get_nowait() until the queue is
\* empty, the sentinel is met or total_size reaches the maximum.
RECURSIVE Drain(_, _, _)
Drain(queue, serialized_messages, total_size) ==
    IF total_size < max_total_size /\ queue # <<>>
    THEN IF Head(queue) = STOP
         THEN [queue |-> Tail(queue), serialized_messages |-> serialized_messages,
               received_sentinel |-> TRUE]
         ELSE Drain(Tail(queue), Append(serialized_messages, Head(queue)),
                    total_size + Head(queue).size + framing_overhead)
    ELSE [queue |-> queue, serialized_messages |-> serialized_messages,
          received_sentinel |-> FALSE]

NothingOnSentinel(d) == IF d.received_sentinel THEN <<>> ELSE d.serialized_messages

\* generator_output_task: the messages handed to put_data_out after the drain.
ToPut(d) == d.serialized_messages

\* generator_output_task from a first message to the put_data_out call.
Coalesce(g, message) ==
    LET d == Drain(g.queue, <<message>>, message.size + framing_overhead)
    IN  [g EXCEPT !.pc = "put", !.queue = d.queue, !.message = None,
                  !.batch = ToPut(d), !.received_sentinel = d.received_sentinel]

IndexPlusOne(index, serialized_messages) == index + 1

\* generator_output_task: `index += len(serialized_messages)`
NextIndex(index, serialized_messages) == index + Len(serialized_messages)

\* put_data_out: DataChunk(index=start_index + i) for the i-th message.
DataChunks(start_index, serialized_messages) ==
    [i \in 1..Len(serialized_messages) |->
        <<start_index + (i - 1), serialized_messages[i].id>>]

\* asyncio.Queue(size).put up to its suspension: the item is queued, or the
\* queue is full and the caller blocks.
QueueFull(queue) == Len(queue) >= QueueSize

\* The generator emits a message: _queue_put on a queue with room.
EmitMessage(size) ==
    /\ gen.ctx = "body"
    /\ gen.emitted < MaxMessages
    /\ ~QueueFull(gen.queue)
    /\ gen' = [gen EXCEPT !.emitted = @ + 1,
                          !.queue = Append(@, [id |-> gen.emitted + 1, size |-> size])]
    /\ UNCHANGED <<hbVars, snap, pipeVars, genOthers>>

\* The `with` body ends: `await message_rx.put(GENERATOR_STOP_SENTINEL)`.
SenderExit ==
    /\ gen.ctx \in {"body", "stopping"}
    /\ gen.ctx = "stopping" => ~QueueFull(gen.queue)
    /\ gen' = IF QueueFull(gen.queue)
              THEN [gen EXCEPT !.ctx = "stopping"]
              ELSE [gen EXCEPT !.ctx = "joining", !.queue = Append(@, STOP)]
    /\ UNCHANGED <<hbVars, snap, pipeVars, genOthers>>

\* `await task` returns or re-raises.
SenderJoined ==
    /\ gen.ctx = "joining"
    /\ gen.pc \in {"done", "failed"}
    /\ gen' = [gen EXCEPT !.ctx = IF gen.pc = "done" THEN "exited" ELSE "raised"]
    /\ UNCHANGED <<hbVars, snap, pipeVars, genOthers>>

\* `message = await message_rx.get()` returns.
TaskGet ==
    /\ gen.pc = "get"
    /\ gen.queue # <<>>
    /\ LET message == Head(gen.queue)
           g == [gen EXCEPT !.queue = Tail(@)]
       IN  gen' = IF message = STOP THEN [g EXCEPT !.pc = "done"]
                  ELSE IF g.index = 1 THEN [g EXCEPT !.pc = "sleep", !.message = message]
                  ELSE Coalesce(g, message)
    /\ UNCHANGED <<hbVars, snap, pipeVars, genOthers>>

\* The 1 ms sleep after the first message is over.
TaskSleepDone ==
    /\ gen.pc = "sleep"
    /\ gen' = Coalesce(gen, gen.message)
    /\ UNCHANGED <<hbVars, snap, pipeVars, genOthers>>

\* put_data_out returns: the chunks are on data_out; next loop iteration.
PutDataOutReturns ==
    /\ gen.pc = "put"
    /\ gen' = [gen EXCEPT
                 !.data_out = @ \o DataChunks(gen.index, gen.batch),
                 !.calls = @ + 1,
                 !.index = NextIndex(gen.index, gen.batch),
                 !.batch = <<>>,
                 !.pc = IF gen.received_sentinel THEN "done" ELSE "get"]
    /\ UNCHANGED <<hbVars, snap, pipeVars, genOthers>>

\* put_data_out raises (blob upload or FunctionCallPutDataOut out of retries).
PutDataOutFails ==
    /\ gen.pc = "put"
    /\ gen' = [gen EXCEPT !.pc = "failed", !.batch = <<>>]
    /\ UNCHANGED <<hbVars, snap, pipeVars, genOthers>>

\* ------------------------------------------------- _run_heartbeat_loop
\* The control flow of one _run_heartbeat_loop task, an attempt
\* (_heartbeat_handle_cancellations) taken as one await that returns True or
\* False or raises. hbl.pc: idle, attempt, sleep_floor (the 1.0 s sleep after
\* a cancellation event), sleep (until the next heartbeat), stopped (the loop
\* broke out and returned), cancelled (CancelledError left the task), raised
\* (another exception left the task). hbl.since: the time since t_last_success
\* as of the last failed attempt, in whole HEARTBEAT_INTERVALs, saturating at
\* MaxSince. hbl.last_exc: what the last attempt raised (None: it returned).
\* hbl.elevated: the last failure logged the "failing for over ... minutes"
\* warning. Of the last attempt: hbl.event, its response had a
\* cancel_input_event; hbl.issued, the cancel callbacks it invoked;
\* hbl.duration, heartbeat_duration in whole HEARTBEAT_INTERVALs. hbl.delay:
\* time_until_next_heartbeat in HEARTBEAT_INTERVALs while hbl.pc = "sleep".
NoLoop ==
    [pc |-> "idle", since |-> 0, last_exc |-> None, elevated |-> FALSE,
     event |-> FALSE, issued |-> 0, duration |-> 0, delay |-> 0]

\* What an attempt may raise: ClientClosed, any other Exception (a gRPC
\* deadline, a local error), and the CancelledError of a cancelled task.
ExceptionKinds == {"ClientClosed", "Exception", "CancelledError"}

\* `if time_since_heartbeat_success > HEARTBEAT_INTERVAL * 50`
elevated_window == 50

GiveUpWhenElevated(kind, since) ==
    CASE kind = "ClientClosed" -> "break"
      [] kind = "CancelledError" -> "propagate"
      [] OTHER -> IF since > elevated_window THEN "raise" ELSE "retry"

\* The except clauses of _run_heartbeat_loop: `except ClientClosed: break`,
\* `except Exception: <log>`; CancelledError is no Exception and propagates.
Handler(kind, since) ==
    CASE kind = "ClientClosed" -> "break"
      [] kind = "CancelledError" -> "propagate"
      [] OTHER -> "retry"

\* The input ids a cancel event may name: the first input of the container
\* and one that is not in current_inputs.
CancelIds == {<<1, 1>>, <<2, 1>>}

\* The ContainerHeartbeat responses: without a cancel_input_event, or with one
\* that names any of the ids, or none.
HeartbeatResponses ==
    {[has_event |-> FALSE, input_ids |-> {}]} \cup
    {[has_event |-> TRUE, input_ids |-> ids] : ids \in SUBSET CancelIds}

GotCancellationIfIds(response) == response.has_event /\ response.input_ids # {}

\* What _heartbeat_handle_cancellations returns:
\* `if response.HasField("cancel_input_event"): ...; return True`, else False.
GotCancellation(response) == response.has_event

\* The invocations of cancel callbacks so far.
RECURSIVE CallbackCalls(_)
CallbackCalls(cs) == IF cs = <<>> THEN 0 ELSE Head(cs).calls + CallbackCalls(Tail(cs))

\* `time_until_next_heartbeat = max(0.0, HEARTBEAT_INTERVAL - heartbeat_duration)`
TimeUntilNextHeartbeat(duration) == Max(0, 1 - duration)

\* The attempt returns after `duration` intervals with the response handled:
\* t_last_success is reset; sleep 1.0 s after a cancellation event,
\* HEARTBEAT_INTERVAL less the attempt's duration otherwise.
LoopAttemptReturns(response, duration) ==
    /\ hbl.pc = "attempt"
    /\ ctxs' = IF response.has_event
               THEN CancelInputs(ctxs, current_inputs, response.input_ids)
               ELSE ctxs
    /\ hbl' = [hbl EXCEPT !.since = 0, !.last_exc = None, !.elevated = FALSE,
                          !.event = response.has_event,
                          !.issued = CallbackCalls(ctxs') - CallbackCalls(ctxs),
                          !.duration = duration,
                          !.delay = IF GotCancellation(response) THEN 0
                                    ELSE TimeUntilNextHeartbeat(duration),
                          !.pc = IF GotCancellation(response)
                                 THEN "sleep_floor" ELSE "sleep"]
    /\ UNCHANGED <<input_slots, fetching_inputs, stop_concurrency_loop, calls_completed,
                   current_inputs, current_input_id, current_input_started_at,
                   task_id, singleton, conf, prod>>
    /\ UNCHANGED <<hbVars, snap, hblOthers>>

\* The attempt raises an exception of the kind after `duration` intervals.
LoopAttemptRaises(kind, duration) ==
    /\ hbl.pc = "attempt"
    /\ LET since == Min(hbl.since + Max(1, duration), MaxSince)
           h == Handler(kind, since)
           l == [hbl EXCEPT !.last_exc = kind, !.event = FALSE, !.issued = 0,
                            !.duration = duration]
       IN  hbl' = CASE h = "break" -> [l EXCEPT !.pc = "stopped"]
                    [] h = "propagate" -> [l EXCEPT !.pc = "cancelled"]
                    [] h = "retry" -> [l EXCEPT !.pc = "sleep",
                                                !.since = since,
                                                !.elevated = since > elevated_window,
                                                !.delay = TimeUntilNextHeartbeat(duration)]
                    [] OTHER -> [l EXCEPT !.pc = "raised"]
    /\ UNCHANGED <<hbVars, snap, pipeVars, hblOthers>>

\* asyncio.sleep returns: `while 1` goes round.
LoopSleepDone ==
    /\ hbl.pc \in {"sleep", "sleep_floor"}
    /\ hbl' = [hbl EXCEPT !.pc = "attempt"]
    /\ UNCHANGED <<hbVars, snap, pipeVars, hblOthers>>

\* The task is cancelled from outside while it sleeps (heartbeats' finally,
\* stop_heartbeat).
LoopCancelled ==
    /\ hbl.pc \in {"sleep", "sleep_floor"}
    /\ hbl' = [hbl EXCEPT !.pc = "cancelled"]
    /\ UNCHANGED <<hbVars, snap, pipeVars, hblOthers>>

\* -------------------------------------------------- handle_user_exception
\* The container's lifecycle code, each phase of it run inside a
\* handle_user_exception context. ue.pc: idle, body (the code of ue.phase
\* runs), task_result (the TaskResult call is in flight), raised (the context
\* raised ue.raised), exited (the last phase returned). ue.exc: the exception
\* the body raised. ue.requests: the TaskResultRequests sent.
NoException == [kind |-> "None", serializable |-> TRUE, tb_serializable |-> TRUE]

NoUser ==
    [pc |-> "idle", phase |-> 1, exc |-> NoException, requests |-> <<>>,
     raised |-> NoException]

\* "exception during container lifecycle (setup, enter, exit)"
Phases == <<"setup", "enter", "exit">>

\* The exceptions a body may raise: KeyboardInterrupt, Exceptions (ImportError
\* is looked at on its own) and the other BaseExceptions; serialize(exc) and
\* the serialization of its traceback may each fail.
UserExceptions ==
    [kind : {"KeyboardInterrupt", "Exception", "ImportError", "SystemExit",
             "GeneratorExit", "CancelledError"},
     serializable : BOOLEAN, tb_serializable : BOOLEAN]

UserException == [kind |-> "UserException", serializable |-> TRUE, tb_serializable |-> TRUE]

\* serialize_exception: serialize(exc), or serialize(SerializationError(err))
\* when that fails.
SerializeException(exc) == IF exc.serializable THEN exc.kind ELSE "SerializationError"

\* serialize_traceback, and `serialized_tb or b""`
SerializeTraceback(exc) == IF exc.tb_serializable THEN "tb" ELSE ""

ReraiseInterrupts(exc) ==
    IF exc.kind \in {"KeyboardInterrupt", "GeneratorExit"} THEN "raise" ELSE "report"

\* The except clauses of handle_user_exception: `except KeyboardInterrupt:
\* raise`, `except BaseException as exc:` reports.
UserHandler(exc) == IF exc.kind = "KeyboardInterrupt" THEN "raise" ELSE "report"

\* The GenericResult of the TaskResultRequest.
TaskResultOf(exc) ==
    [status |-> FailedStatus, data |-> SerializeException(exc), exception |-> exc.kind,
     serialized_tb |-> SerializeTraceback(exc)]

\* The lifecycle code starts.
UserStart ==
    /\ ue.pc = "idle"
    /\ ue' = [ue EXCEPT !.pc = "body"]
    /\ UNCHANGED <<hbVars, snap, pipeVars, ueOthers>>

\* The body returns: the context exits and the next phase is entered.
UserBodyReturns ==
    /\ ue.pc = "body"
    /\ ue' = IF ue.phase < Len(Phases)
             THEN [ue EXCEPT !.phase = @ + 1]
             ELSE [ue EXCEPT !.pc = "exited"]
    /\ UNCHANGED <<hbVars, snap, pipeVars, ueOthers>>

\* The body raises exc: re-raised, or the result is built and the TaskResult
\* call issued.
UserBodyRaises(exc) ==
    /\ ue.pc = "body"
    /\ ue' = IF UserHandler(exc) = "raise"
             THEN [ue EXCEPT !.pc = "raised", !.exc = exc, !.raised = exc]
             ELSE [ue EXCEPT !.pc = "task_result", !.exc = exc,
                             !.requests = Append(@, TaskResultOf(exc))]
    /\ UNCHANGED <<hbVars, snap, pipeVars, ueOthers>>

\* The TaskResult call returned: `raise UserException()`.
TaskResultReturns ==
    /\ ue.pc = "task_result"
    /\ ue' = [ue EXCEPT !.pc = "raised", !.raised = UserException]
    /\ UNCHANGED <<hbVars, snap, pipeVars, ueOthers>>

\* ------------------------------------- handle_input_exception: repr(exc)
\* The repr of one exception as handle_input_exception reports it. rx.pc:
\* idle, raised (the exception reached `except BaseException`), built
\* (repr_exc is final). rx.len: len(repr(exc)). rx.kept: how many characters
\* of repr(exc), from its first on, repr_exc begins with. rx.trimmed: whether
\* the "...\nTrimmed {trimmed_bytes} bytes from original exception" note
\* follows them, and rx.trimmed_bytes: the number in it.
NoRepr == [pc |-> "idle", len |-> 0, kept |-> 0, trimmed |-> FALSE, trimmed_bytes |-> 0]

\* modal._utils.blob_utils.MAX_OBJECT_SIZE_BYTES: 2 MiB ("large exception
\* messages (>2mb are trimmed)", test_container_doesnt_send_large_exceptions)
MAX_OBJECT_SIZE_BYTES == 2097152

\* `trimmed_bytes = len(repr_exc) - MAX_OBJECT_SIZE_BYTES - 1000`
TrimmedBytes(len) == len - MAX_OBJECT_SIZE_BYTES - 1000

\* handle_input_exception, from `repr_exc = repr(exc)` to the f-string:
\* repr_exc[: MAX_OBJECT_SIZE_BYTES - 1000] keeps that many characters, or
\* all of a shorter string.
ReprBuilt ==
    /\ rx.pc = "raised"
    /\ rx' = IF rx.len >= MAX_OBJECT_SIZE_BYTES
             THEN [rx EXCEPT !.pc = "built",
                             !.kept = Min(rx.len, MAX_OBJECT_SIZE_BYTES - 1000),
                             !.trimmed = TRUE,
                             !.trimmed_bytes = TrimmedBytes(rx.len)]
             ELSE [rx EXCEPT !.pc = "built", !.kept = rx.len]
    /\ UNCHANGED <<hbVars, snap, pipeVars, rxOthers>>

\* ------------------------------------------------------ a batched IOContext
\* One IOContext taken by itself from call_finalized_function to the outputs
\* the server accepted. bat.pc: idle, created, returned (the callable returned
\* bat.data), pushing (_push_outputs in flight with bat.results), done.
\* bat.inputs: the deserialized (args, kwargs) of each input, args a tuple and
\* kwargs the keys of the dict in its order. bat.data: what the callable
\* returned. bat.outputs: the results FunctionPutOutputs accepted, in the
\* order of the input ids they were zipped with. bat.call: the (args, kwargs)
\* the callable was called with, NoCall while it has not been called.
NoData == [is_list |-> FALSE, len |-> 0]

NoCall == [called |-> FALSE, args |-> <<>>, kwargs |-> <<>>]

NoBat ==
    [pc |-> "idle", is_batched |-> FALSE, inputs |-> <<>>, data |-> NoData,
     results |-> <<>>, outputs |-> <<>>, call |-> NoCall]

\* The rest of the side tasks is idle.
ExtrasIdle == bat = NoBat /\ ue = NoUser /\ sl = NoSlots /\ dc = NoConc /\ rx = NoRepr /\ ioc = NoCtx /\ fi = NoFetch /\ ex = NoExit

\* inspect.signature(callable).parameters: a callable of two parameters, as
\* batch_function_sync(x, y).
param_names == <<"x", "y">>

\* The keywords an invocation may carry.
Keywords == {"x", "y", "z"}

\* The args tuples (the values do not matter, their number does) and the
\* kwargs dicts (their keys, in dict order) an input may deserialize to.
ArgTuples == UNION {[1..n -> {"v"}] : n \in 0..MaxArgs}
KwargKeys ==
    {<<>>} \cup {<<k>> : k \in Keywords}
           \cup {kk \in Keywords \X Keywords : kk[1] # kk[2]}
BatchInputs == [args : ArgTuples, kwargs : KwargKeys]

\* What a callable may return: something that is no list, or a list of a
\* given length.
ReturnValues == {[is_list |-> FALSE, len |-> 1]} \cup
                {[is_list |-> TRUE, len |-> n] : n \in 0..(MaxBatch + 1)}

InvalidError(message) == [type |-> "InvalidError", message |-> message]

\* No exception: the call returned.
Returned == [type |-> "None", message |-> <<>>]

Range(f) == {f[i] : i \in DOMAIN f}

\* _args_and_kwargs, `for k, v in kwargs.items()` from the i-th key on, with
\* `assigned` the keys of kwargs_by_inputs[i] so far: the exception raised,
\* or Returned.
RECURSIVE KwargsLoop(_, _, _)
KwargsLoop(assigned, kwargs, i) ==
    IF i > Len(kwargs) THEN Returned
    ELSE IF kwargs[i] \notin Range(param_names)
         THEN InvalidError(<<"got unexpected keyword argument", kwargs[i]>>)
         ELSE IF kwargs[i] \in assigned
              THEN InvalidError(<<"got multiple values for argument", kwargs[i]>>)
              ELSE KwargsLoop(assigned \cup {kwargs[i]}, kwargs, i + 1)

\* _args_and_kwargs, the body of `for i, (args, kwargs) in
\* enumerate(deserialized_args)` for one input.
CheckInput(args, kwargs) ==
    IF Len(args) + Len(kwargs) # Len(param_names)
    THEN InvalidError(<<"takes positional arguments", Len(param_names),
                        Len(args) + Len(kwargs)>>)
    ELSE KwargsLoop({param_names[j] : j \in 1..Len(args)}, kwargs, 1)

\* _args_and_kwargs from the i-th input on: the exception it raises, or Returned
\* when it returns.
RECURSIVE ArgsLoop(_, _)
ArgsLoop(inputs, i) ==
    IF i > Len(inputs) THEN Returned
    ELSE LET exc == CheckInput(inputs[i].args, inputs[i].kwargs)
         IN  IF exc # Returned THEN exc ELSE ArgsLoop(inputs, i + 1)

ArgsUnchecked(is_batched, inputs) == Returned

\* IOContext._args_and_kwargs: unbatched inputs are passed on as they are.
ArgsAndKwargs(is_batched, inputs) ==
    IF ~is_batched THEN Returned ELSE ArgsLoop(inputs, 1)

\* The values input i deserializes to, each named after where the caller put
\* it: its j-th positional argument, its keyword argument k.
Deserialized(inp, i) ==
    [args |-> [j \in 1..Len(inp.args) |-> <<i, j>>],
     kwargs |-> [k \in Range(inp.kwargs) |-> <<i, k>>]]

\* _args_and_kwargs, kwargs_by_inputs[i] of an input that passed the checks:
\* `kwargs_by_inputs[i][param_names[j]] = arg`, then
\* `kwargs_by_inputs[i][k] = v`.
KwargsByInput(d) ==
    LET positional == 1..Min(Len(d.args), Len(param_names))
    IN  [k \in DOMAIN d.kwargs |-> d.kwargs[k]] @@
        [p \in {param_names[j] : j \in positional} |->
            d.args[CHOOSE j \in positional : param_names[j] = p]]

\* `kwargs[param_name]`; every parameter is a key for an input that passed the
\* checks, and NoValue stands for the KeyError of one that is not.
NoValue == <<>>

KwargOf(kwargs, param_name) ==
    IF param_name \in DOMAIN kwargs THEN kwargs[param_name] ELSE NoValue

FormattedKwargsOfFirst(inputs) ==
    [p \in Range(param_names) |->
        [i \in 1..Len(inputs) |-> KwargOf(KwargsByInput(Deserialized(inputs[1], 1)), p)]]

\* _args_and_kwargs: `formatted_kwargs = {param_name: [kwargs[param_name] for
\* kwargs in kwargs_by_inputs] for param_name in param_names}`
FormattedKwargs(inputs) ==
    [p \in Range(param_names) |->
        [i \in 1..Len(inputs) |-> KwargOf(KwargsByInput(Deserialized(inputs[i], i)), p)]]

\* What _args_and_kwargs returns when it raises nothing:
\* deserialized_args[0], or `(), formatted_kwargs`.
CallOf(is_batched, inputs) ==
    IF ~is_batched
    THEN [called |-> TRUE] @@ Deserialized(inputs[1], 1)
    ELSE [called |-> TRUE, args |-> <<>>, kwargs |-> FormattedKwargs(inputs)]

\* IOContext.validate_output_data: the exception it raises, or Returned.
ValidateOutputData(is_batched, data, n) ==
    IF ~is_batched THEN Returned
    ELSE IF ~data.is_list THEN InvalidError(<<"must be a list">>)
         ELSE IF data.len # n
              THEN InvalidError(<<"must be a list of equal length as its inputs">>)
              ELSE Returned

\* handle_input_exception, except BaseException: one FAILURE result per input
\* id, all built from the one exception.
FailureResults(exc, n) == [i \in 1..n |-> [status |-> FailedStatus, exception |-> exc]]

\* push_outputs: one SUCCESS result per item of the validated data ([data] for
\* an unbatched call).
SuccessResults(is_batched, data) ==
    [i \in 1..(IF is_batched THEN data.len ELSE 1) |->
        [status |-> SuccessStatus, exception |-> Returned]]

\* _push_outputs: zip(io_context.input_ids, io_context.retry_counts, results)
Zip(n, results) == SubSeq(results, 1, Min(n, Len(results)))

\* The execution calls call_finalized_function inside handle_input_exception:
\* _args_and_kwargs raises, or the callable returns `data`, or it raises an
\* exception of its own.
BatchCall(data, raises) ==
    /\ bat.pc = "created"
    /\ LET exc == ArgsAndKwargs(bat.is_batched, bat.inputs)
           n == Len(bat.inputs)
       IN  bat' = CASE exc # Returned ->
                       [bat EXCEPT !.pc = "pushing", !.results = FailureResults(exc, n)]
                    [] exc = Returned /\ raises ->
                       [bat EXCEPT !.pc = "pushing",
                                   !.call = CallOf(bat.is_batched, bat.inputs),
                                   !.results = FailureResults([type |-> "UserError",
                                                               message |-> <<>>], n)]
                    [] OTHER -> [bat EXCEPT !.pc = "returned", !.data = data,
                                            !.call = CallOf(bat.is_batched, bat.inputs)]
    /\ UNCHANGED <<hbVars, snap, pipeVars, batOthers>>

\* The execution calls push_outputs inside handle_input_exception:
\* validate_output_data raises, or the SUCCESS results are pushed.
BatchPushOutputs ==
    /\ bat.pc = "returned"
    /\ LET n == Len(bat.inputs)
           exc == ValidateOutputData(bat.is_batched, bat.data, n)
       IN  bat' = [bat EXCEPT !.pc = "pushing",
                              !.results = IF exc # Returned
                                          THEN FailureResults(exc, n)
                                          ELSE SuccessResults(bat.is_batched, bat.data)]
    /\ UNCHANGED <<hbVars, snap, pipeVars, batOthers>>

\* The FunctionPutOutputs call of _push_outputs returned (a batch this small
\* takes one call); exit_context.
BatchPutOutputsReturns ==
    /\ bat.pc = "pushing"
    /\ bat' = [bat EXCEPT !.pc = "done",
                          !.outputs = @ \o Zip(Len(bat.inputs), bat.results)]
    /\ UNCHANGED <<hbVars, snap, pipeVars, batOthers>>

\* ------------------------------------------------------- _push_outputs
\* One call of _push_outputs taken by itself. push.n: len(outputs); push.i:
\* the loop variable of `for i in range(0, len(outputs), output_batch_size)`;
\* push.reqs: the FunctionPutOutputsRequests issued so far, each the sequence
\* of the positions (1 = the first input id) of the outputs it carries.
\* push.pc: idle, start (called), rpc (a request in flight), done (returned).
NoPush == [pc |-> "idle", n |-> 0, i |-> 0, reqs |-> <<>>]

\* outputs[i : i + output_batch_size]
Slice(i, n) == [j \in 1..(NextSent(i, n) - i) |-> i + j]

\* The loop of _push_outputs at index i: the next request is issued, or the
\* range is exhausted and _push_outputs returns.
PushLoop(p, i) ==
    IF i < p.n
    THEN [p EXCEPT !.pc = "rpc", !.i = i, !.reqs = Append(@, Slice(i, p.n))]
    ELSE [p EXCEPT !.pc = "done"]

\* _push_outputs is called: the outputs are built and the loop entered.
PushOutputsCalled ==
    /\ push.pc = "start"
    /\ push' = PushLoop(push, 0)
    /\ UNCHANGED <<hbVars, snap, pipeVars, pushOthers>>

\* The FunctionPutOutputs call in flight returns (after however many retries).
PushOutputsRpcReturns ==
    /\ push.pc = "rpc"
    /\ push' = PushLoop(push, push.i + output_batch_size)
    /\ UNCHANGED <<hbVars, snap, pipeVars, pushOthers>>

\* --------------------------------------------------------- specifications
\* _init with the function definition read into conf.
InitFields ==
    /\ input_slots = NewInputSlots(conf.target_concurrency)
    /\ fetching_inputs = TRUE
    /\ stop_concurrency_loop = FALSE
    /\ calls_completed = 0
    /\ current_inputs = <<>>
    /\ current_input_id = NoInputId
    /\ current_input_started_at = None
    /\ task_id = OldTask
    /\ singleton = 1
    /\ prod = [pc |-> "start", yielded |-> FALSE, final_input_received |-> FALSE,
               close_got |-> 0, close_total |-> 0]
    /\ ctxs = <<>>
    /\ hb_late_cancel = FALSE
    /\ heartbeat_lock = FreeLock
    /\ waiting_for_memory_snapshot = FALSE

InitPipe ==
    /\ \E mc \in 0..MaxConc, tc \in 0..MaxConc,
          bms \in {0, output_batch_size + 1}, mi \in {0, 1} :
          conf = InitConf(mc, tc, bms, mi) @@ [record_outputs |-> FALSE]
    /\ InitFields
    /\ push = NoPush
    /\ gen = NoGen
    /\ hbl = NoLoop
    /\ ExtrasIdle

\* The container serving inputs, its heartbeat loop running.
Init ==
    /\ InitPipe
    /\ hb_pc = "ready"
    /\ snap = [pc |-> "idle", checkpoint_id |-> FALSE, restored_state |-> None]

\* The steps of a container whose capacity nobody changes.
NextFixed ==
    \/ StartProducer
    \/ AcquireResumed
    \/ GetInputsRateLimited
    \/ RateLimitSleepDone
    \/ GetInputsEmpty
    \/ GetInputsKillSwitch
    \/ GetInputsError
    \/ \E n \in {1, output_batch_size + 1}, final \in BOOLEAN : GetInputsItems(n, final)
    \/ IOContextCreated
    \/ ConsumerResume
    \/ CloseResumed
    \/ \E k \in 1..MaxCtx : SetCancelCallback(k)
    \/ \E k \in 1..MaxCtx : PushOutputs(k)
    \/ \E k \in 1..MaxCtx : PutOutputsReturns(k)
    \/ \E k \in 1..MaxCtx : InputCancelled(k)
    \/ \E k \in 1..MaxCtx : InputFails(k)
    \/ \E k \in 1..MaxCtx : InputInterrupted(k)
    \/ StopFetchingInputs
    \/ HeartbeatBegin
    \/ \E ids \in CancelEvents : HeartbeatResponse(ids)
    \/ HeartbeatFails

Next ==
    \/ NextFixed
    \/ \E n \in 0..(MaxConc + 1) : SetInputConcurrency(n)
    \/ \E n \in 1..MaxConc : DynamicConcurrency(n)

Spec == Init /\ [][Next]_vars

\* The same container with two slots, with and without batching, and with the
\* history of the outputs the server accepted.
InitOut ==
    /\ \E bms \in {0, output_batch_size + 1} :
          conf = InitConf(MaxConc, 0, bms, 0) @@ [record_outputs |-> TRUE]
    /\ InitFields
    /\ push = NoPush
    /\ gen = NoGen
    /\ hbl = NoLoop
    /\ ExtrasIdle
    /\ hb_pc = "ready"
    /\ snap = [pc |-> "idle", checkpoint_id |-> FALSE, restored_state |-> None]

\* With max_concurrency = target_concurrency the dynamic concurrency loop is
\* not started.
NextOut ==
    \/ NextFixed
    \/ \E n \in 0..(MaxConc + 1) : SetInputConcurrency(n)

SpecOut == InitOut /\ [][NextOut]_vars

SpecFixed == Init /\ [][NextFixed]_vars

\* A container of MaxConc slots at most, one to start with, so that the
\* capacity moves both ways while inputs are in flight.
InitDrain ==
    /\ \E mi \in {0, 1} :
          conf = InitConf(MaxConc, 1, 0, mi) @@ [record_outputs |-> FALSE]
    /\ InitFields
    /\ push = NoPush
    /\ gen = NoGen
    /\ hbl = NoLoop
    /\ ExtrasIdle
    /\ hb_pc = "ready"
    /\ snap = [pc |-> "idle", checkpoint_id |-> FALSE, restored_state |-> None]

\* The same steps; the event loop resumes close() once the future it awaits
\* has its result (a step that changes input_slots and prod).
SpecDrain == InitDrain /\ [][Next]_vars /\ WF_<<input_slots, prod>>(CloseResumed)

\* The container before it serves inputs: heartbeats() and memory_snapshot().
InitHB ==
    /\ InitPipe
    /\ hb_pc = "off"
    /\ \E c \in BOOLEAN : snap = [pc |-> "idle", checkpoint_id |-> c, restored_state |-> None]

NextHB ==
    \/ \E w \in BOOLEAN : StartHeartbeats(w)
    \/ HeartbeatBegin
    \/ HeartbeatLockGranted
    \/ \E ids \in CancelEvents : HeartbeatResponse(ids)
    \/ HeartbeatFails
    \/ StopHeartbeat
    \/ MemorySnapshot
    \/ SnapshotLockGranted
    \/ SnapshotAdvance
    \/ \E restored_state \in RestoreStates : RestoreFileRead(restored_state)
    \/ SnapshotDone
    \/ SnapshotFails

SpecHB == InitHB /\ [][NextHB]_vars

\* The heartbeat loop and memory_snapshot while heartbeats() stays open (the
\* loop's task is not cancelled).
NextHBOpen ==
    \/ \E w \in BOOLEAN : StartHeartbeats(w)
    \/ HeartbeatBegin
    \/ HeartbeatLockGranted
    \/ \E ids \in CancelEvents : HeartbeatResponse(ids)
    \/ HeartbeatFails
    \/ MemorySnapshot
    \/ SnapshotLockGranted
    \/ SnapshotAdvance
    \/ \E restored_state \in RestoreStates : RestoreFileRead(restored_state)
    \/ SnapshotDone
    \/ SnapshotFails

\* The event loop runs every task that is ready: a loop that was woken, or
\* handed the lock, runs its next step.
SpecHBFair ==
    InitHB /\ [][NextHBOpen]_vars /\ WF_vars(HeartbeatBegin) /\ WF_vars(HeartbeatLockGranted)

\* The manager while the consumer holds its first input (after StartProducer,
\* GetInputsItems(1, FALSE), IOContextCreated).
InitHeld ==
    /\ input_slots = [NewInputSlots(conf.target_concurrency) EXCEPT !.active = 1]
    /\ fetching_inputs = TRUE
    /\ stop_concurrency_loop = FALSE
    /\ calls_completed = 0
    /\ ctxs = <<[NewIOContext(1) EXCEPT !.st = "running"]>>
    /\ current_inputs = [id \in {<<1, 1>>} |-> 1]
    /\ current_input_id = <<1, 1>>
    /\ current_input_started_at = Now
    /\ task_id = OldTask
    /\ singleton = 1
    /\ prod = [pc |-> "yielded", yielded |-> FALSE, final_input_received |-> FALSE,
               close_got |-> 0, close_total |-> 0]

\* memory_snapshot() called on a manager that serves nothing yet or holds an
\* input, with heartbeats() running or not.
InitRestore ==
    /\ conf = InitConf(1, 0, 0, 0) @@ [record_outputs |-> FALSE]
    /\ InitFields \/ InitHeld
    /\ push = NoPush
    /\ gen = NoGen
    /\ hbl = NoLoop
    /\ ExtrasIdle
    /\ hb_pc = "off"
    /\ hb_late_cancel = FALSE
    /\ heartbeat_lock = FreeLock
    /\ waiting_for_memory_snapshot = FALSE
    /\ \E c \in BOOLEAN : snap = [pc |-> "idle", checkpoint_id |-> c, restored_state |-> None]

SpecRestore == InitRestore /\ [][NextHB]_vars

\* A container that is not serving: the state all the side tasks start from.
InitIdle ==
    /\ conf = InitConf(0, 0, 0, 0) @@ [record_outputs |-> FALSE]
    /\ InitFields
    /\ hb_pc = "off"
    /\ snap = [pc |-> "idle", checkpoint_id |-> FALSE, restored_state |-> None]

\* _push_outputs called with 0..MaxOutputs outputs.
InitPush ==
    /\ InitIdle
    /\ gen = NoGen
    /\ hbl = NoLoop
    /\ ExtrasIdle
    /\ \E n \in 0..MaxOutputs : push = [NoPush EXCEPT !.pc = "start", !.n = n]

NextPush == PushOutputsCalled \/ PushOutputsRpcReturns

SpecPush == InitPush /\ [][NextPush]_vars

\* generator_output_sender entered: the task is created and the body runs.
InitGen ==
    /\ InitIdle
    /\ push = NoPush
    /\ gen = [NoGen EXCEPT !.ctx = "body", !.pc = "get"]
    /\ hbl = NoLoop
    /\ ExtrasIdle

NextGen ==
    \/ \E size \in MessageSizes : EmitMessage(size)
    \/ SenderExit
    \/ SenderJoined
    \/ TaskGet
    \/ TaskSleepDone
    \/ PutDataOutReturns
    \/ PutDataOutFails

SpecGen == InitGen /\ [][NextGen]_vars

\* _run_heartbeat_loop started, the first attempt under way, in a container
\* that serves nothing yet or holds an input whose cancel callback is or is
\* not attached.
InitLoop ==
    /\ conf = InitConf(0, 0, 0, 0) @@ [record_outputs |-> FALSE]
    /\ \/ InitFields
       \/ /\ InitHeld
          /\ hb_late_cancel = FALSE
          /\ heartbeat_lock = FreeLock
          /\ waiting_for_memory_snapshot = FALSE
       \/ /\ input_slots = [NewInputSlots(conf.target_concurrency) EXCEPT !.active = 1]
          /\ fetching_inputs = TRUE
          /\ stop_concurrency_loop = FALSE
          /\ calls_completed = 0
          /\ ctxs = <<SetCallback([NewIOContext(1) EXCEPT !.st = "running"])>>
          /\ current_inputs = [id \in {<<1, 1>>} |-> 1]
          /\ current_input_id = <<1, 1>>
          /\ current_input_started_at = Now
          /\ task_id = OldTask
          /\ singleton = 1
          /\ prod = [pc |-> "yielded", yielded |-> FALSE, final_input_received |-> FALSE,
                     close_got |-> 0, close_total |-> 0]
          /\ hb_late_cancel = FALSE
          /\ heartbeat_lock = FreeLock
          /\ waiting_for_memory_snapshot = FALSE
    /\ hb_pc = "off"
    /\ snap = [pc |-> "idle", checkpoint_id |-> FALSE, restored_state |-> None]
    /\ push = NoPush
    /\ gen = NoGen
    /\ hbl = [NoLoop EXCEPT !.pc = "attempt"]
    /\ ExtrasIdle

NextLoop ==
    \/ \E response \in HeartbeatResponses, duration \in {0, LongAttempt} :
          LoopAttemptReturns(response, duration)
    \/ \E kind \in ExceptionKinds, duration \in {0, LongAttempt} :
          LoopAttemptRaises(kind, duration)
    \/ LoopSleepDone
    \/ LoopCancelled

SpecLoop == InitLoop /\ [][NextLoop]_vars

\* dynamic_concurrency_manager entered on a container whose max_concurrency
\* exceeds its target: the loop task starts at its while, with some of the
\* slots taken.
InitConc ==
    /\ \E mc \in 1..MaxConc + 1, tc \in 0..MaxConc :
          /\ conf = InitConf(mc, tc, 0, 0) @@ [record_outputs |-> FALSE]
          /\ conf.max_concurrency > conf.target_concurrency
    /\ \E active \in 0..1 :
          input_slots = [NewInputSlots(conf.target_concurrency) EXCEPT !.active = active]
    /\ fetching_inputs = TRUE
    /\ stop_concurrency_loop = FALSE
    /\ calls_completed = 0
    /\ current_inputs = <<>>
    /\ current_input_id = NoInputId
    /\ current_input_started_at = None
    /\ task_id = OldTask
    /\ singleton = 1
    /\ prod = [pc |-> "start", yielded |-> FALSE, final_input_received |-> FALSE,
               close_got |-> 0, close_total |-> 0]
    /\ ctxs = <<>>
    /\ hb_late_cancel = FALSE
    /\ heartbeat_lock = FreeLock
    /\ waiting_for_memory_snapshot = FALSE
    /\ hb_pc = "off"
    /\ snap = [pc |-> "idle", checkpoint_id |-> FALSE, restored_state |-> None]
    /\ push = NoPush
    /\ gen = NoGen
    /\ hbl = NoLoop
    /\ bat = NoBat
    /\ ue = NoUser
    /\ sl = NoSlots
    /\ dc = [NoConc EXCEPT !.pc = "check"]
    /\ ex = NoExit
    /\ fi = NoFetch
    /\ ioc = NoCtx
    /\ rx = NoRepr

NextConc ==
    \/ ConcLoopCheck
    \/ \E concurrency \in 0..MaxConc + 2 : ConcResponse(concurrency)
    \/ ConcRaises
    \/ ConcSleepDone
    \/ ConcCancelled
    \/ \E concurrency \in 0..MaxConc + 2 : SetInputConcurrency(concurrency)

SpecConc == InitConc /\ [][NextConc]_vars

\* An exception whose repr is up to MaxExcess characters shorter or longer
\* than MAX_OBJECT_SIZE_BYTES reaches handle_input_exception.
InitRepr ==
    /\ InitIdle
    /\ ex = NoExit
    /\ push = NoPush
    /\ gen = NoGen
    /\ hbl = NoLoop
    /\ bat = NoBat
    /\ ue = NoUser
    /\ sl = NoSlots
    /\ dc = NoConc
    /\ fi = NoFetch
    /\ ioc = NoCtx
    /\ \E d \in -MaxExcess..MaxExcess :
          rx = [NoRepr EXCEPT !.pc = "raised", !.len = MAX_OBJECT_SIZE_BYTES + d]

SpecRepr == InitRepr /\ [][ReprBuilt]_vars

\* A new IOContext on which cancel() and set_cancel_callback() are called in
\* any order, MaxOps calls at most.
InitCtx ==
    /\ InitIdle
    /\ ex = NoExit
    /\ push = NoPush
    /\ gen = NoGen
    /\ hbl = NoLoop
    /\ bat = NoBat
    /\ ue = NoUser
    /\ sl = NoSlots
    /\ dc = NoConc
    /\ fi = NoFetch
    /\ rx = NoRepr
    /\ ioc = NoCtx

NextCtx == CtxCancel \/ CtxSetCancelCallback

SpecCtx == InitCtx /\ [][NextCtx]_vars

\* The kinds of item of a FunctionGetInputs response.
ItemKinds == {"input", "final", "kill_switch"}

\* A FunctionGetInputs response arrives in _generate_inputs of a function
\* with batch_max_size = MaxItems: up to MaxItems items of any kind, with or
\* without a rate-limit sleep duration.
InitFetch ==
    /\ InitIdle
    /\ ex = NoExit
    /\ push = NoPush
    /\ gen = NoGen
    /\ hbl = NoLoop
    /\ bat = NoBat
    /\ ue = NoUser
    /\ sl = NoSlots
    /\ dc = NoConc
    /\ rx = NoRepr
    /\ ioc = NoCtx
    /\ \E n \in 0..MaxItems, rate_limit \in BOOLEAN :
          \E items \in [1..n -> ItemKinds] :
              fi = [NoFetch EXCEPT !.pc = "response", !.rate_limit = rate_limit,
                                   !.items = items]

NextFetch == FetchRateLimited \/ FetchItems \/ FetchEmpty

SpecFetch == InitFetch /\ [][NextFetch]_vars

\* A manager that serves both IOContexts, each holding a slot, after some
\* calls have completed.
InitExit ==
    /\ InitIdle
    /\ push = NoPush
    /\ gen = NoGen
    /\ hbl = NoLoop
    /\ bat = NoBat
    /\ ue = NoUser
    /\ sl = NoSlots
    /\ dc = NoConc
    /\ rx = NoRepr
    /\ ioc = NoCtx
    /\ fi = NoFetch
    /\ \E completed \in 0..1 :
          LET m == ExitFields(completed, completed, {"in-1", "in-2", "in-3"},
                              [NewInputSlots(MaxConc) EXCEPT !.active = 2])
          IN  ex = [NoExit EXCEPT !.m = m, !.before = m]

NextExit ==
    \/ \E elapsed \in 1..2, input_ids \in ServedContexts :
          ExitContextCalled(elapsed, input_ids)
    \/ ExitAfterRestore

SpecExit == InitExit /\ [][NextExit]_vars

\* IOContext.create returned an IOContext of one unbatched input or of a batch
\* of up to MaxBatch inputs.
InitBatch ==
    /\ InitIdle
    /\ ex = NoExit
    /\ fi = NoFetch
    /\ ioc = NoCtx
    /\ rx = NoRepr
    /\ dc = NoConc
    /\ push = NoPush
    /\ gen = NoGen
    /\ hbl = NoLoop
    /\ ue = NoUser
    /\ sl = NoSlots
    /\ \E is_batched \in BOOLEAN, n \in 1..MaxBatch :
          /\ is_batched \/ n = 1
          /\ \E inputs \in [1..n -> BatchInputs] :
                bat = [NoBat EXCEPT !.pc = "created", !.is_batched = is_batched,
                                    !.inputs = inputs]

NextBatch ==
    \/ \E data \in ReturnValues, raises \in BOOLEAN : BatchCall(data, raises)
    \/ BatchPushOutputs
    \/ BatchPutOutputsReturns

SpecBatch == InitBatch /\ [][NextBatch]_vars

\* The container before its lifecycle code runs.
InitUser ==
    /\ InitIdle
    /\ ex = NoExit
    /\ fi = NoFetch
    /\ ioc = NoCtx
    /\ rx = NoRepr
    /\ dc = NoConc
    /\ push = NoPush
    /\ gen = NoGen
    /\ hbl = NoLoop
    /\ bat = NoBat
    /\ ue = NoUser
    /\ sl = NoSlots

NextUser ==
    \/ UserStart
    \/ UserBodyReturns
    \/ \E exc \in UserExceptions : UserBodyRaises(exc)
    \/ TaskResultReturns

SpecUser == InitUser /\ [][NextUser]_vars

\* InputSlots(value) just made, its callers idle.
InitSlots ==
    /\ InitIdle
    /\ ex = NoExit
    /\ fi = NoFetch
    /\ ioc = NoCtx
    /\ rx = NoRepr
    /\ dc = NoConc
    /\ push = NoPush
    /\ gen = NoGen
    /\ hbl = NoLoop
    /\ bat = NoBat
    /\ ue = NoUser
    /\ \E v \in 0..MaxConc :
          sl = [s |-> NewInputSlots(v), callers |-> [c \in Callers |-> "idle"]]

NextSlots ==
    \/ \E c \in Callers : SlotsAcquire(c)
    \/ \E c \in Callers : SlotsResumed(c)
    \/ \E c \in Callers : SlotsRelease(c)
    \/ \E v \in 0..MaxConc : SlotsSetValue(v)

SpecSlots == InitSlots /\ [][NextSlots]_vars

\* ================================================================ claims
\* The IOContexts that have been yielded and not exited.
LiveContexts == {k \in 1..Len(ctxs) : ctxs[k].st \in Live}

\* The IOContexts exit_context has run for.
ExitedContexts == {k \in 1..Len(ctxs) : ctxs[k].st = "done"}

RECURSIVE SumInputs(_)
SumInputs(ks) ==
    IF ks = {} THEN 0
    ELSE LET k == CHOOSE x \in ks : TRUE IN ctxs[k].n + SumInputs(ks \ {k})

\* C1: at no moment is a ContainerHeartbeat request in flight while
\* _waiting_for_memory_snapshot is true, however the heartbeat loop and
\* memory_snapshot interleave.
C1_NoHeartbeatWhileSnapshot ==
    ~(hb_pc = "rpc" /\ waiting_for_memory_snapshot)

\* C1 witness: the snapshot holds the lock with the flag set while the
\* heartbeat loop, which started a tick, is queued behind it.
C1_Witness ==
    /\ waiting_for_memory_snapshot
    /\ snap.pc = "restoring"
    /\ hb_pc = "lock_wait"

\* C2: a slot is granted (to an acquire that returns at once, or to the parked
\* waiter by release or set_value) only when active < value: right after every
\* step that grants a slot, active <= value.
C2_GrantOnlyBelowCapacity ==
    [][(\/ input_slots'.active > input_slots.active
        \/ input_slots'.resolved /\ ~input_slots.resolved
        \/ prod.pc \notin {"rpc", "acq_wait"} /\ prod'.pc = "rpc")
       => input_slots'.active <= input_slots'.value]_vars

\* C2 witness: after a downsize more slots are taken than the capacity allows
\* and the producer is parked in acquire.
C2_Witness ==
    /\ input_slots.active > input_slots.value
    /\ input_slots.waiter # None
    /\ prod.pc = "acq_wait"

\* C3 (as claimed): when close() has returned, every holder has released and
\* active = value.
C3_CloseJoinsAllHolders ==
    prod.pc = "done" =>
        /\ \A k \in 1..Len(ctxs) : ctxs[k].st \notin (Live \cup {"hydrating"})
        /\ input_slots.active = input_slots.value

C5_ExitAfterOutputs ==
    \A k \in 1..Len(ctxs) :
        /\ ctxs[k].st = "done" => ctxs[k].sent = ctxs[k].n
        /\ (ctxs[k].st \in Pushing /\ ctxs[k].sent < ctxs[k].n)
              => InputIds(k) \subseteq DOMAIN current_inputs

\* C5 witness: a cancelled batch that needed two FunctionPutOutputs calls has
\* been exited.
C5_Witness ==
    \E k \in 1..Len(ctxs) :
        /\ ctxs[k].st = "done"
        /\ ctxs[k].n > output_batch_size
        /\ ctxs[k].cancel_issued

\* C6 (amended): calls_completed equals the number of IOContexts that have
\* been exited (a batched IOContext counts once), and no input id of an
\* exited IOContext is a key of current_inputs.
C6_CallsCompletedCountsContexts ==
    /\ calls_completed = Cardinality(ExitedContexts)
    /\ \A k \in ExitedContexts : InputIds(k) \cap DOMAIN current_inputs = {}

\* C6 (as claimed): calls_completed equals the number of completed inputs,
\* counting each input of a batched IOContext.
C6_CallsCompletedCountsInputs ==
    /\ calls_completed = SumInputs(ExitedContexts)
    /\ \A k \in ExitedContexts : InputIds(k) \cap DOMAIN current_inputs = {}

\* C6 witness: a batched IOContext has been exited.
C6_Witness ==
    \E k \in ExitedContexts : ctxs[k].n > 1 /\ calls_completed >= 1

\* C7: the keys of current_inputs are exactly the input ids of the IOContexts
\* yielded and not yet exited, each mapped to its own context.
C7_CurrentInputsExact ==
    /\ DOMAIN current_inputs = UNION {InputIds(k) : k \in LiveContexts}
    /\ \A id \in DOMAIN current_inputs : current_inputs[id] = id[1]

\* C7 witness: two IOContexts are in flight, one of them a batch, and one of
\* them is between two of its output pushes.
C7_Witness ==
    /\ Cardinality(LiveContexts) = 2
    /\ \E k \in LiveContexts : ctxs[k].n > 1
    /\ \E k \in LiveContexts : ctxs[k].st \in Pushing

\* C8: with a capacity that is never changed, the IOContexts yielded and not
\* yet exited never outnumber it.
C8_LiveWithinCapacity ==
    /\ input_slots.value = conf.target_concurrency
    /\ Cardinality(LiveContexts) <= input_slots.value

\* C8 witness: two slots, both taken by an IOContext, and the producer is
\* parked waiting for a third.
C8_Witness ==
    /\ input_slots.value = 2
    /\ Cardinality(LiveContexts) = input_slots.value
    /\ prod.pc = "acq_wait"

\* C9: cancel() is idempotent and the cancel callback is invoked at most
\* once, exactly once when a cancellation was issued.
C9_CancelOnce ==
    \A k \in 1..Len(ctxs) :
        /\ Cancel(Cancel(ctxs[k])) = Cancel(ctxs[k])
        /\ ctxs[k].calls <= 1
        /\ ctxs[k].cancel_issued <=> ctxs[k].calls = 1

\* C9 witness: the callback of a running context was invoked and a further
\* heartbeat, whose response may name the context again, is in flight.
C9_Witness ==
    \E k \in 1..Len(ctxs) :
        /\ ctxs[k].calls = 1
        /\ ctxs[k].st = "running"
        /\ hb_pc = "rpc"

\* C10 (as claimed): a heartbeat response whose cancel event names only
\* inputs whose outputs were accepted changes nothing.
C10_LateCancelIsNoOp ==
    [][(hb_pc = "rpc" /\ hb_late_cancel')
       => UNCHANGED <<ctxs, input_slots, calls_completed, current_inputs,
                      current_input_id, prod>>]_vars

OutputRecords(k) ==
    ctxs[k].outs["SUCCESS"] + ctxs[k].outs["TERMINATED"] + ctxs[k].outs["FAILURE"]

\* C13 (as claimed): for an IOContext with N input ids exactly N output
\* records are pushed in total, never more and, once it is exited, not fewer.
C13_OneRecordPerInput ==
    \A k \in 1..Len(ctxs) :
        /\ OutputRecords(k) <= ctxs[k].n
        /\ ctxs[k].st = "done" => OutputRecords(k) = ctxs[k].n

RECURSIVE Concat(_)
Concat(seqs) == IF seqs = <<>> THEN <<>> ELSE Head(seqs) \o Concat(Tail(seqs))

C15_ChunkIndexIsQueueRank ==
    /\ \A j \in 1..Len(gen.data_out) : gen.data_out[j] = <<j, j>>
    /\ gen.index = Len(gen.data_out) + 1
    /\ \A i \in 1..Len(gen.batch) : gen.batch[i].id = gen.index + (i - 1)

\* C15 witness: four messages went out in more than one put_data_out call, one
\* of which carried several.
C15_Witness ==
    /\ Len(gen.data_out) = 4
    /\ gen.calls \in {2, 3}

\* C16: when the generator_output_sender context has exited, data_out holds
\* each message the generator emitted exactly once, in order, and nothing else.
C16_AllMessagesWritten ==
    gen.ctx = "exited" =>
        /\ Len(gen.data_out) = gen.emitted
        /\ \A j \in 1..Len(gen.data_out) : gen.data_out[j][2] = j
        /\ gen.queue = <<>>

\* C16 witness: the context exited after the sentinel was met while draining
\* the queue behind a message.
C16_Witness ==
    /\ gen.ctx = "exited"
    /\ gen.received_sentinel
    /\ gen.emitted >= 2

\* C17: the step that handles a response with a kill-switch item ends the
\* producer: it yields no IOContext, releases the slot of that fetch once and
\* closes the semaphore; and once the semaphore is closed no GetInputs request
\* is issued and no IOContext created any more.
C17_KillSwitchEndsProducer ==
    /\ [][GetInputsKillSwitch =>
            /\ ctxs' = ctxs
            /\ current_inputs' = current_inputs
            /\ input_slots'.closed
            /\ prod'.pc \in {"close_wait", "done"}
            /\ input_slots'.active - prod'.close_got
                 - (IF input_slots'.resolved THEN 1 ELSE 0) = input_slots.active - 1]_vars
    /\ [](input_slots.closed => prod.pc \in {"close_wait", "done"})
    /\ [][input_slots.closed => Len(ctxs') = Len(ctxs)]_vars

\* C17 witness: the semaphore was closed although fetching was not stopped and
\* no final input was received: a kill switch ended the producer, which waits
\* in close() for an input still in flight.
C17_Witness ==
    /\ input_slots.closed
    /\ fetching_inputs
    /\ ~prod.final_input_received
    /\ conf.max_inputs # 1
    /\ prod.pc = "close_wait"
    /\ \E k \in 1..Len(ctxs) : ctxs[k].st = "running"

\* C18 (as claimed): once stop_fetching_inputs() has cleared _fetching_inputs,
\* no step issues a FunctionGetInputs request and no step yields an IOContext.
C18_NoFetchAfterStop ==
    [][~fetching_inputs =>
        /\ ~(prod.pc # "rpc" /\ prod'.pc = "rpc")
        /\ \A k \in 1..Len(ctxs) :
              ~(ctxs[k].st = "hydrating" /\ ctxs'[k].st = "running")]_vars

\* C19: the heartbeat loop ends only on ClientClosed or on cancellation of its
\* task and never with another exception; an attempt that raises anything
\* else is followed by a sleep and a further attempt, also when the time
\* since the last success exceeds 50 intervals.
C19_LoopSurvivesFailures ==
    /\ [](hbl.pc # "raised")
    /\ [](hbl.pc = "stopped" => hbl.last_exc = "ClientClosed")
    /\ [](hbl.pc = "cancelled" => hbl.last_exc \in {None, "Exception", "CancelledError"})
    /\ [][(hbl.pc = "attempt" /\ hbl'.pc # "attempt" /\ hbl'.last_exc = "Exception")
            => hbl'.pc = "sleep"]_vars
    /\ [](hbl.pc \in {"sleep", "sleep_floor"} => ENABLED LoopSleepDone)

\* C19 witness: a further attempt is under way after failures that have lasted
\* more than 50 intervals.
C19_Witness ==
    /\ hbl.pc = "attempt"
    /\ hbl.last_exc = "Exception"
    /\ hbl.since > elevated_window
    /\ hbl.elevated

\* C20, as stated: once memory_restore has completed, current_inputs is empty,
\* current_input_id and current_input_started_at are null, task_id is the
\* task_id the restore-state file records, and the manager is the object it
\* was before the snapshot.
C20_RestoredAsStated ==
    snap.pc = "done" =>
        /\ current_inputs = <<>>
        /\ current_input_id = NoInputId
        /\ current_input_started_at = None
        /\ snap.restored_state.task_id # Absent => task_id = snap.restored_state.task_id
        /\ singleton = 1

\* C20, amended: once memory_restore has completed, current_inputs is empty,
\* current_input_id and current_input_started_at are null, task_id is the
\* task_id the restore-state file records when that is present and not empty
\* and the task_id of before the snapshot otherwise, and the manager is the
\* object it was before the snapshot.
C20_RestoredState ==
    snap.pc = "done" =>
        /\ current_inputs = <<>>
        /\ current_input_id = NoInputId
        /\ current_input_started_at = None
        /\ task_id = IF snap.restored_state.task_id \in TaskIds
                     THEN snap.restored_state.task_id
                     ELSE OldTask
        /\ singleton = 1

\* C20 witness: a restore completed on a manager that held an input when the
\* snapshot was taken, with a new task_id from the restore-state file.
C20_Witness ==
    /\ snap.pc = "done"
    /\ prod.pc = "yielded"
    /\ current_inputs = <<>>
    /\ snap.restored_state.task_id # OldTask
    /\ task_id = snap.restored_state.task_id

ArgsViolation(inp) ==
    \/ Len(inp.args) + Len(inp.kwargs) # Len(param_names)
    \/ \E i \in 1..Len(inp.kwargs) : inp.kwargs[i] \notin Range(param_names)
    \/ \E i \in 1..Len(inp.kwargs) :
          \E j \in 1..Len(inp.args) : j <= Len(param_names) /\ param_names[j] = inp.kwargs[i]

BatchViolation ==
    /\ bat.is_batched
    /\ \/ \E i \in 1..Len(bat.inputs) : ArgsViolation(bat.inputs[i])
       \/ /\ bat.data # NoData
          /\ ~bat.data.is_list \/ bat.data.len # Len(bat.inputs)

\* C22: when the outputs of a batch that violates a batch invariant have been
\* pushed, each of its input ids has got one FAILURE output, all of them
\* carrying one and the same InvalidError, and none has got a SUCCESS output.
C22_ViolationFailsWholeBatch ==
    (bat.pc = "done" /\ BatchViolation) =>
        /\ Len(bat.outputs) = Len(bat.inputs)
        /\ \A i \in 1..Len(bat.outputs) :
              /\ bat.outputs[i].status = "FAILURE"
              /\ bat.outputs[i].exception.type = "InvalidError"
              /\ bat.outputs[i].exception = bat.outputs[1].exception

\* C22 witness: a batch of two whose second input alone breaks the argument
\* count has got its two FAILURE outputs.
C22_Witness ==
    /\ bat.pc = "done"
    /\ bat.is_batched
    /\ Len(bat.inputs) = 2
    /\ ~ArgsViolation(bat.inputs[1])
    /\ Len(bat.inputs[2].args) = 3
    /\ Len(bat.outputs) = 2
    /\ bat.outputs[1].status = "FAILURE"

C24_SetValueAlwaysTakesEffect ==
    [][\A n \in 0..(MaxConc + 1) :
          SetInputConcurrency(n) =>
              input_slots'.value = Min(n, conf.max_concurrency)]_vars

\* C24 (amended): set_value(n) on a semaphore that has not been closed sets
\* the capacity to n, whatever the number of slots taken, so a downsize is
\* never refused; on a closed semaphore it leaves the capacity as it is.
C24_SetValueUnlessClosed ==
    [][/\ \A n \in 0..(MaxConc + 1) :
            SetInputConcurrency(n) =>
                input_slots'.value = IF input_slots.closed THEN input_slots.value
                                     ELSE Min(n, conf.max_concurrency)
       /\ \A n \in 1..MaxConc :
            DynamicConcurrency(n) =>
                input_slots'.value = IF input_slots.closed THEN input_slots.value
                                     ELSE n]_vars

\* C24 witness: set_input_concurrency lowered the capacity of an open
\* semaphore to zero while two slots were taken.
C24_Witness ==
    /\ stop_concurrency_loop
    /\ ~input_slots.closed
    /\ input_slots.value = 0
    /\ input_slots.active = 2

\* C25: an acquire() called while another task is parked and active >= value
\* raises at once and leaves the semaphore, its parked waiter included, as it
\* was; the parked waiter is woken by the next release or set_value that
\* leaves active < value.
C25_SecondWaiterFailsFast ==
    /\ [][\A c \in Callers :
            (SlotsAcquire(c) /\ sl.s.waiter # None /\ sl.s.active >= sl.s.value)
                => sl'.callers[c] = "error" /\ sl'.s = sl.s]_vars
    /\ [][((\/ \E c \in Callers : SlotsRelease(c)
            \/ \E v \in 0..MaxConc : SlotsSetValue(v))
           /\ sl.s.waiter # None)
              => \/ sl'.s.waiter = None /\ sl'.s.resolved
                 \/ sl'.s.waiter # None /\ sl'.s.active >= sl'.s.value]_vars

\* C25 witness: one task was refused while another was parked, and the parked
\* one has since been woken and has returned from acquire().
C25_Witness ==
    /\ sl.callers # <<>>
    /\ \E c, d \in Callers : sl.callers[c] = "error" /\ sl.callers[d] = "resumed"

\* C26: once the producer has yielded a batch with a final input, or its
\* first batch when max_inputs is 1, it sends no further FunctionGetInputs
\* request, and when it is resumed it does not release the slot of that batch:
\* the slots taken change only by what close() collects.
C26_LastBatchEndsProducer ==
    [][(/\ prod.pc \in {"create", "yielded"}
        /\ prod.final_input_received \/ conf.max_inputs = 1)
       => /\ prod'.pc \in {"create", "yielded", "close_wait", "done", "failed",
                          "acquire_raised"}
          /\ prod'.pc \notin {"create", "yielded"} =>
                input_slots'.active = input_slots.active + prod'.close_got]_vars

\* C26 witness: the batch with the final input was exited by the consumer and
\* close() has returned, with no limit on the number of inputs.
C26_Witness ==
    /\ conf.max_inputs = 0
    /\ prod.final_input_received
    /\ prod.pc = "done"
    /\ Len(ctxs) = 2
    /\ ctxs[2].st = "done"

\* C27 (as claimed): after an attempt the loop sleeps the fixed 1 s exactly
\* when the attempt issued a cancellation to an IOContext, and
\* max(0, HEARTBEAT_INTERVAL - duration) in every other case.
C27_FloorIffCancellationIssued ==
    hbl.pc \in {"sleep", "sleep_floor"} =>
        /\ hbl.pc = "sleep_floor" <=> hbl.issued > 0
        /\ hbl.pc = "sleep" => hbl.delay = Max(0, 1 - hbl.duration)

\* C27 (amended): after an attempt the loop sleeps the fixed 1 s exactly when
\* the heartbeat response carried a cancel_input_event, which every attempt
\* that issued a cancellation did, and max(0, HEARTBEAT_INTERVAL - duration)
\* in every other case.
C27_FloorIffCancelEvent ==
    hbl.pc \in {"sleep", "sleep_floor"} =>
        /\ hbl.pc = "sleep_floor" <=> hbl.event
        /\ hbl.issued > 0 => hbl.pc = "sleep_floor"
        /\ hbl.pc = "sleep" => hbl.delay = Max(0, 1 - hbl.duration)

\* C27 witness: the attempt cancelled the input the container holds and the
\* loop is in its 1 s sleep.
C27_Witness ==
    /\ hbl.pc = "sleep_floor"
    /\ hbl.issued = 1
    /\ Len(ctxs) = 1
    /\ ctxs[1].cancel_issued

\* C28: once set_input_concurrency has been called, no step of the dynamic
\* concurrency loop changes the semaphore, the arrival of a response whose
\* request was in flight at the call included: the capacity changes only by
\* another set_input_concurrency.
C28_ManualOverrideStops ==
    [][stop_concurrency_loop =>
          /\ (\E concurrency \in 0..MaxConc + 1 : ConcResponse(concurrency))
                => input_slots' = input_slots
          /\ input_slots'.value # input_slots.value
                => \E concurrency \in 0..MaxConc + 1 : SetInputConcurrency(concurrency)]_vars

\* C28 witness: a response that asked for another capacity arrived after
\* set_input_concurrency and the loop has since ended.
C28_Witness ==
    /\ stop_concurrency_loop
    /\ dc.overridden
    /\ dc.pc = "done"

\* C29: a heartbeat loop parked on the condition while memory_snapshot has
\* not completed eventually sends a heartbeat if memory_snapshot completes;
\* and no step of the loop, a wake-up included, sends one while
\* waiting_for_memory_snapshot is true.
C29_ParkedLoopResumes ==
    /\ []((hb_pc = "cond_wait" /\ snap.pc # "done" /\ <>(snap.pc = "done"))
             => <>(hb_pc = "rpc"))
    /\ [][hb_pc # "rpc" /\ hb_pc' = "rpc" => ~waiting_for_memory_snapshot]_vars

\* C29 witness: memory_snapshot has completed and its broadcast has woken the
\* loop that was parked on the condition.
C29_Witness ==
    /\ snap.pc = "done"
    /\ hb_pc = "notified"
    /\ ~waiting_for_memory_snapshot

\* C30: when close() is parked and every IOContext eventually has run
\* exit_context, run_inputs_outputs eventually returns; and no step taken
\* while close() is parked makes it raise.
C30_DrainTerminates ==
    /\ []((prod.pc = "close_wait" /\ <>(\A k \in 1..Len(ctxs) : ctxs[k].st = "done"))
             => <>(prod.pc = "done"))
    /\ [][prod.pc = "close_wait" => prod'.pc \in {"close_wait", "done"}]_vars

\* C30 witness: close() returned after it had been parked behind two inputs
\* in flight with the capacity lowered to one.
C30_Witness ==
    /\ prod.pc = "done"
    /\ prod.close_total = 1
    /\ input_slots.active = 1
    /\ Len(ctxs) = 2
    /\ \A k \in 1..Len(ctxs) : ctxs[k].st = "done"

\* C31: the callable of a batch is called with no positional arguments and
\* with one keyword per parameter name, bound to a list of one item per input,
\* the i-th being what input i passed for that parameter, by position or by
\* keyword; every input of a batch that was called passed each parameter in
\* exactly one of the two ways.
C31_ParallelLists ==
    (bat.is_batched /\ bat.call.called) =>
        /\ bat.call.args = <<>>
        /\ DOMAIN bat.call.kwargs = Range(param_names)
        /\ \A j \in 1..Len(param_names) :
              LET p == param_names[j]
              IN  /\ Len(bat.call.kwargs[p]) = Len(bat.inputs)
                  /\ \A i \in 1..Len(bat.inputs) :
                        LET inp == bat.inputs[i]
                        IN  /\ (j <= Len(inp.args)) # (p \in Range(inp.kwargs))
                            /\ Cardinality({m \in 1..Len(inp.kwargs) : inp.kwargs[m] = p}) <= 1
                            /\ bat.call.kwargs[p][i] =
                                  IF j <= Len(inp.args) THEN <<i, j>> ELSE <<i, p>>

\* C31 witness: a batch of two was called, one input passing x by position
\* and y by keyword, the other both by keyword in the order y, x.
C31_Witness ==
    /\ bat.is_batched
    /\ bat.call.called
    /\ Len(bat.inputs) = 2
    /\ Len(bat.inputs[1].args) = 1 /\ bat.inputs[1].kwargs = <<"y">>
    /\ bat.inputs[2].args = <<>> /\ bat.inputs[2].kwargs = <<"y", "x">>

\* generator_output_task: total_size of serialized_messages,
\* `len(serialized_messages[k]) + 512` summed over the batch.
RECURSIVE EstimatedTotal(_)
EstimatedTotal(serialized_messages) ==
    IF serialized_messages = <<>> THEN 0
    ELSE Head(serialized_messages).size + framing_overhead
         + EstimatedTotal(Tail(serialized_messages))

\* C32: every put_data_out call that carries more than one message has an
\* estimated total payload (serialized length + 512 per message) below 16 MiB.
C32_CoalescedBelowLimit ==
    (gen.pc = "put" /\ Len(gen.batch) > 1) => EstimatedTotal(gen.batch) < max_total_size

\* C33: a repr of MAX_OBJECT_SIZE_BYTES characters or more is reported as its
\* first MAX_OBJECT_SIZE_BYTES - 1000 characters followed by a note whose
\* number is the count of characters removed, which is positive.
C33_NoteCountsRemoved ==
    (rx.pc = "built" /\ rx.len >= MAX_OBJECT_SIZE_BYTES) =>
        /\ rx.kept = MAX_OBJECT_SIZE_BYTES - 1000
        /\ rx.trimmed
        /\ rx.trimmed_bytes = rx.len - rx.kept
        /\ rx.trimmed_bytes > 0

\* C34: when KeyboardInterrupt or GeneratorExit reaches handle_input_exception
\* it is re-raised and the handler changes nothing: the step that aborts a
\* running context pushes no output (the context's record is the same but for
\* its position), runs no exit_context (calls_completed, current_inputs and the
\* semaphore are as they were), and an aborted context gets no output and no
\* exit afterwards.
C34_InterruptChangesNothing ==
    [][\A k \in 1..Len(ctxs) :
          /\ (ctxs[k].st = "running" /\ ctxs'[k].st = "aborted")
                => /\ ctxs'[k] = [ctxs[k] EXCEPT !.st = "aborted"]
                   /\ calls_completed' = calls_completed
                   /\ current_inputs' = current_inputs
                   /\ input_slots' = input_slots
          /\ ctxs[k].st = "aborted"
                => /\ ctxs'[k].st = "aborted"
                   /\ ctxs'[k].sent = ctxs[k].sent
                   /\ InputIds(k) \subseteq DOMAIN current_inputs']_vars

\* C34 witness: a context was aborted by KeyboardInterrupt or GeneratorExit
\* while the container had completed another call and still holds the aborted
\* context's inputs and slot.
C34_Witness ==
    \E k \in 1..Len(ctxs) :
        /\ ctxs[k].st = "aborted"
        /\ ctxs[k].sent = 0
        /\ InputIds(k) \subseteq DOMAIN current_inputs
        /\ calls_completed > 0
        /\ input_slots.active > 0

\* The positions of the calls of one kind in a sequence of calls.
Positions(ops, op) == {i \in 1..Len(ops) : ops[i] = op}

\* C35: a cancel() made before any set_cancel_callback invokes nothing and
\* does not mark the context as cancelled, and the first cancel() made after a
\* set_cancel_callback invokes the callback: the callback has been invoked
\* (once) and the context is marked exactly when some cancel() followed some
\* set_cancel_callback.
C35_EarlyCancelMissedOnce ==
    LET cancelled_late == \E i \in Positions(ioc.ops, "set_cancel_callback") :
                              \E j \in Positions(ioc.ops, "cancel") : i < j
    IN  /\ ioc.c.cancel_issued <=> cancelled_late
        /\ ioc.c.calls = IF cancelled_late THEN 1 ELSE 0
        /\ ~ioc.c.cb => Cancel(ioc.c) = ioc.c

\* C35 witness: cancel() came before the callback was attached and again
\* after it, and the callback was invoked.
C35_Witness ==
    /\ ioc.ops = <<"cancel", "set_cancel_callback", "cancel">>
    /\ ioc.c.calls = 1
    /\ ioc.c.cancel_issued

\* The regular items of a response: those that are not a kill switch.
RegularItems(items) == {i \in 1..Len(items) : items[i] # "kill_switch"}

\* C36 (as claimed): once the producer is done with a response (it sleeps,
\* has yielded, has returned or goes on to the next request), every regular
\* item of the response is in the yielded list, exactly once.
C36_NoInputDropped ==
    fi.pc \in {"sleeping", "yielded", "returned", "next"}
      => \A i \in RegularItems(fi.items) :
            Cardinality(Positions(fi.inputs, i)) = 1

\* C37: in the container (the producer, its consumers, set_input_concurrency,
\* the dynamic concurrency loop and stop_fetching_inputs) acquire is never
\* called while an acquire is parked: a future is set only while the producer
\* is parked in its own acquire or in an acquire of close(), and no acquire
\* raises "Concurrent waiters are not supported".
C37_NoConcurrentWaiters ==
    /\ prod.pc # "acquire_raised"
    /\ input_slots.waiter # None => prod.pc \in {"acq_wait", "close_wait"}
    /\ prod.pc \in {"acq_wait", "close_wait"}
          => input_slots.waiter # None \/ input_slots.resolved

\* C37 witness: stop_fetching_inputs was called and the capacity resized, the
\* producer went from its own acquires to close(), and an acquire of close()
\* is parked after an earlier one was granted, while a consumer still holds
\* a slot.
C37_Witness ==
    /\ prod.pc = "close_wait"
    /\ input_slots.waiter # None
    /\ prod.close_got > 0
    /\ ~fetching_inputs
    /\ input_slots.value # conf.target_concurrency
    /\ \E k \in 1..Len(ctxs) : ctxs[k].st \in Live

\* C38 (as claimed): when exit_context has raised KeyError, total_user_time,
\* calls_completed, current_inputs and the semaphore are as they were when it
\* was called.
C38_ExitAllOrNothing ==
    ex.raised => ex.m = ex.before

\* C39 (as claimed): the step with which memory_snapshot terminates, by
\* returning or by raising, leaves waiting_for_memory_snapshot false and the
\* heartbeat loop not parked on the condition; without a checkpoint id it
\* raises and leaves the flag as it was.
C39_SnapshotAlwaysResetsFlag ==
    [][(snap.pc \notin {"done", "failed"} /\ snap'.pc \in {"done", "failed"})
       => IF snap.checkpoint_id
          THEN ~waiting_for_memory_snapshot' /\ hb_pc' # "cond_wait"
          ELSE waiting_for_memory_snapshot' = waiting_for_memory_snapshot]_vars

\* C40 (as claimed): the capacity of the semaphore is never above
\* max_concurrency, whether it is the initial capacity, was set by
\* set_input_concurrency or was applied by the dynamic concurrency loop.
C40_CapacityWithinMax ==
    input_slots.value <= conf.max_concurrency

====
